---- MODULE Spec2Model ----
(***************************************************************************)
(* Model of TetrahedralMesh::Define (Source/Urho3D/Math/TetrahedralMesh.cpp) *)
(* : the incremental Delaunay construction, the pass/retry loop, the       *)
(* super-mesh cleanup, the hull surface and its normals, the outer shell  *)
(* and the matrices.                                                       *)
(*                                                                         *)
(* Conventions.                                                            *)
(*  - ea::vector<T> is a function with domain 0 .. n-1 (the code's own     *)
(*    indices); fixed arrays (indices_[4], neighbors_[4]) likewise.        *)
(*  - unsigned values are kept in two's complement: M_MAX_UNSIGNED is -1,  *)
(*    so that unsigned additions that wrap modulo 2^32 in the code (for    *)
(*    example numInnerTetrahedrons_ + M_MAX_UNSIGNED) give the same small  *)
(*    value here; unsigned comparisons go through ULess.                   *)
(*  - input positions lie on a lattice: a position is a triple of integers *)
(*    in units of 1/scale world units.  All geometric predicates are       *)
(*    evaluated exactly on the lattice and compared with the code's        *)
(*    epsilons converted to lattice units.                                 *)
(***************************************************************************)
EXTENDS Integers, Sequences, FiniteSets, TLC

(***************************************************************************)
(* Bounds of the model.                                                    *)
(***************************************************************************)
\* Longest list of input positions handed to Define.
MaxPoints == 6
\* The fine lattice has FineScale lattice units per world unit; the coarse
\* lattice has one.
FineScale == 32
\* Number of candidate input positions taken from every candidate list.
NumCandidates == 6

(***************************************************************************)
(* Program constants.                                                      *)
(***************************************************************************)
M_MAX_UNSIGNED == 0 - 1
NumSuperMeshVertices == 8
Infinity3 == M_MAX_UNSIGNED
Infinity2 == M_MAX_UNSIGNED - 1

(***************************************************************************)
(* Arrays and loops.                                                       *)
(***************************************************************************)
Size(a) == Cardinality(DOMAIN a)
EmptyArray == <<>>
PushBack(a, x) == a @@ (Size(a) :> x)
\* The array of n elements whose element i is At(i).
MakeArray(n, At(_)) == [i \in 0 .. n - 1 |-> At(i)] @@ EmptyArray
ArrayOf(seq) == MakeArray(Len(seq), LAMBDA i : seq[i + 1])
Range(a) == {a[i] : i \in DOMAIN a}
\* a < b on unsigned values kept in two's complement.
ULess(a, b) == IF (a < 0) = (b < 0) THEN a < b ELSE b < 0

\* for (i = lo; i < hi && While(st, i); ++i) st = Body(st, i), where st is
\* the record of the variables the loop updates.  A While that has become
\* false stays false for the rest of the range.  The range is run in two
\* halves, first half first, which keeps the nesting of the evaluation
\* logarithmic in the length of the loop; the test on DOMAIN st makes st be
\* computed before the iterations that follow it.
ForLoop(Body(_, _), While(_, _), init, lo, hi) ==
    LET RECURSIVE Run(_, _, _)
        Run(st, a, b) ==
            IF DOMAIN st = {} \/ b <= a THEN st
            ELSE IF ~While(st, a) THEN st
            ELSE IF b = a + 1 THEN Body(st, a)
            ELSE Run(Run(st, a, (a + b) \div 2), (a + b) \div 2, b)
    IN  Run(init, lo, hi)
NoBreak(st, i) == TRUE

(***************************************************************************)
(* Vector arithmetic (Vector3 / HighPrecisionVector3), exact on the        *)
(* lattice.                                                                *)
(***************************************************************************)
Sub(a, b) == <<a[1] - b[1], a[2] - b[2], a[3] - b[3]>>
Add(a, b) == <<a[1] + b[1], a[2] + b[2], a[3] + b[3]>>
Mul(a, k) == <<a[1] * k, a[2] * k, a[3] * k>>
DotProduct(a, b) == a[1] * b[1] + a[2] * b[2] + a[3] * b[3]
CrossProduct(a, b) ==
    <<a[2] * b[3] - a[3] * b[2], a[3] * b[1] - a[1] * b[3], a[1] * b[2] - a[2] * b[1]>>
LengthSquared(a) == DotProduct(a, a)
Min2(a, b) == IF a < b THEN a ELSE b

(***************************************************************************)
(* Epsilons in lattice units.  With k lattice units per world unit a       *)
(* lattice volume D is D / k^3 world units.                                *)
(***************************************************************************)
\* distance < M_LARGE_EPSILON (0.00005), for the integer lattice volume
\* `distance': distance / k^3 < 5 / 100000.
BelowLargeEpsilon(distance, k) == distance <= (k * k * k - 1) \div 20000
\* Abs(radiusDen) < M_EPSILON * M_EPSILON (10^-12): on the lattice a non-zero
\* radiusDen is at least 1 / k^3, far above 10^-12 for the scales of the model.
BelowEpsilonSquared(radiusDen) == radiusDen = 0

(***************************************************************************)
(* Tetrahedron and surface triangle.                                       *)
(***************************************************************************)
Arr3(a, b, c) == (0 :> a) @@ (1 :> b) @@ (2 :> c)
Arr4(a, b, c, d) == (0 :> a) @@ (1 :> b) @@ (2 :> c) @@ (3 :> d)
NoNeighbors4 == Arr4(M_MAX_UNSIGNED, M_MAX_UNSIGNED, M_MAX_UNSIGNED, M_MAX_UNSIGNED)
NoNeighbors3 == Arr3(M_MAX_UNSIGNED, M_MAX_UNSIGNED, M_MAX_UNSIGNED)
\* A value-initialised Tetrahedron (tetrahedrons_.push_back(), resize).
DefaultTetrahedron == [indices_ |-> Arr4(0, 0, 0, 0), neighbors_ |-> NoNeighbors4]

\* Tetrahedron::GetNeighborFaceIndex: position of the first slot equal to
\* neighborTetIndex, 4 when there is none.
GetNeighborFaceIndex(tet, neighborTetIndex) ==
    IF tet.neighbors_[0] = neighborTetIndex THEN 0
    ELSE IF tet.neighbors_[1] = neighborTetIndex THEN 1
    ELSE IF tet.neighbors_[2] = neighborTetIndex THEN 2
    ELSE IF tet.neighbors_[3] = neighborTetIndex THEN 3
    ELSE 4
HasNeighbor(tet, neighborTetIndex) == GetNeighborFaceIndex(tet, neighborTetIndex) < 4

\* Tetrahedron::GetTriangleFace: the three corners other than corner
\* faceIndex, in order; unusedIndex_ is corner faceIndex.
GetTriangleFace(tet, faceIndex, tetIndex, tetFace) ==
    [indices_ |-> Arr3(tet.indices_[IF 0 < faceIndex THEN 0 ELSE 1],
                       tet.indices_[IF 1 < faceIndex THEN 1 ELSE 2],
                       tet.indices_[IF 2 < faceIndex THEN 2 ELSE 3]),
     unusedIndex_ |-> tet.indices_[faceIndex],
     neighbors_ |-> NoNeighbors3,
     tetIndex_ |-> tetIndex,
     tetFace_ |-> tetFace]

\* TetrahedralMeshSurfaceTriangle::GetEdge: edge edgeIndex joins corners
\* edgeIndex and edgeIndex + 1, smaller index first.
GetEdge(tri, edgeIndex) ==
    LET b == tri.indices_[edgeIndex]
        e == tri.indices_[(edgeIndex + 1) % 3]
    IN  IF b > e THEN <<e, b>> ELSE <<b, e>>

\* TetrahedralMeshSurfaceTriangle::Normalize: make (p2 - p1) x (p3 - p1) point
\* away from the unused corner of the underlying tetrahedron.
Normalize(tri, verts) ==
    LET p0 == verts[tri.unusedIndex_]
        p1 == verts[tri.indices_[0]]
        p2 == verts[tri.indices_[1]]
        p3 == verts[tri.indices_[2]]
        outsideDirection == Sub(p1, p0)
        actualNormal == CrossProduct(Sub(p2, p1), Sub(p3, p1))
    IN  IF DotProduct(outsideDirection, actualNormal) < 0
        THEN [tri EXCEPT !.indices_ = Arr3(tri.indices_[1], tri.indices_[0], tri.indices_[2]),
                         !.neighbors_ = Arr3(tri.neighbors_[1], tri.neighbors_[0], tri.neighbors_[2])]
        ELSE tri

(***************************************************************************)
(* TetrahedralMeshSurface.                                                 *)
(***************************************************************************)
\* The body of the triple loop of AddFace over (old face, old edge, new
\* edge), numbered k = 9 * oldFaceIndex + 3 * oldEdgeIndex + newEdgeIndex.
\* st = [faces_, newFace, ok]; ok becomes FALSE at the early return.
AddFaceStep(st, k) ==
    LET newFaceIndex == Size(st.faces_)
        oldFaceIndex == k \div 9
        oldEdgeIndex == (k % 9) \div 3
        newEdgeIndex == k % 3
        oldFace == st.faces_[oldFaceIndex]
        oldEdgeNeighbor == (oldEdgeIndex + 2) % 3
        newEdgeNeighbor == (newEdgeIndex + 2) % 3
    IN  IF GetEdge(oldFace, oldEdgeIndex) # GetEdge(st.newFace, newEdgeIndex)
        THEN st
        ELSE IF \/ oldFace.neighbors_[oldEdgeNeighbor] # M_MAX_UNSIGNED
                \/ st.newFace.neighbors_[newEdgeNeighbor] # M_MAX_UNSIGNED
             THEN [st EXCEPT !.ok = FALSE]
             ELSE [st EXCEPT !.faces_[oldFaceIndex].neighbors_[oldEdgeNeighbor] = newFaceIndex,
                             !.newFace.neighbors_[newEdgeNeighbor] = oldFaceIndex]

\* TetrahedralMeshSurface::AddFace: [ok, faces_].  On failure the new face is
\* not stored, but the links already written into older faces stay.
AddFace(faces, newFace) ==
    LET st == ForLoop(AddFaceStep, LAMBDA s, k : s.ok,
                      [faces_ |-> faces, newFace |-> newFace, ok |-> TRUE], 0, 9 * Size(faces))
    IN  IF st.ok THEN [ok |-> TRUE, faces_ |-> PushBack(st.faces_, st.newFace)]
        ELSE [ok |-> FALSE, faces_ |-> st.faces_]

\* TetrahedralMeshSurface::IsClosedSurface: no face has an unmatched edge.
IsClosedSurface(faces) ==
    \A f \in DOMAIN faces : \A j \in 0 .. 2 : faces[f].neighbors_[j] # M_MAX_UNSIGNED
(***************************************************************************)
(* Circumspheres.                                                          *)
(***************************************************************************)
\* TetrahedralMesh::GetTetrahedronCircumsphere.  The sphere is kept as the
\* exact rational centre p0 + radiusNum / radiusDen, normalised to a positive
\* radiusDen; its radius is the distance from the centre to p0 (the minimum
\* of the four corner distances, which are equal in exact arithmetic).  A
\* degenerate tetrahedron yields the sphere of radius M_LARGE_VALUE^2 around
\* the origin.
GetTetrahedronCircumsphere(verts, tet) ==
    LET p0 == verts[tet.indices_[0]]
        p1 == verts[tet.indices_[1]]
        p2 == verts[tet.indices_[2]]
        p3 == verts[tet.indices_[3]]
        u1 == Sub(p1, p0)
        u2 == Sub(p2, p0)
        u3 == Sub(p3, p0)
        d01 == LengthSquared(u1)
        d02 == LengthSquared(u2)
        d03 == LengthSquared(u3)
        u2u3 == CrossProduct(u2, u3)
        u3u1 == CrossProduct(u3, u1)
        u1u2 == CrossProduct(u1, u2)
        radiusNum == Add(Add(Mul(u2u3, d01), Mul(u3u1, d02)), Mul(u1u2, d03))
        radiusDen == 2 * DotProduct(u1, u2u3)
    IN  IF BelowEpsilonSquared(radiusDen)
        THEN [degenerate |-> TRUE, p0 |-> <<0, 0, 0>>, radiusNum |-> <<0, 0, 0>>, radiusDen |-> 1]
        ELSE IF radiusDen < 0
             THEN [degenerate |-> FALSE, p0 |-> p0, radiusNum |-> Mul(radiusNum, 0 - 1), radiusDen |-> 0 - radiusDen]
             ELSE [degenerate |-> FALSE, p0 |-> p0, radiusNum |-> radiusNum, radiusDen |-> radiusDen]

\* Base of the two-limb evaluation below (keeps every product within 32 bits).
Limb == 2 ^ 15

\* DelaunayContext::IsInsideCircumsphere: sphere.Distance(position) <
\* M_LARGE_EPSILON.  With q = position - p0, |position - centre|^2 - radius^2
\* is (|q|^2 * radiusDen - 2 q.radiusNum) / radiusDen; the position is inside
\* when that is not positive.  The numerator is evaluated in two limbs.  (The
\* tolerance M_LARGE_EPSILON is below the resolution of the lattice: a
\* positive numerator exceeds it for every sphere the model builds.)
IsInsideCircumsphere(sphere, position) ==
    \/ sphere.degenerate
    \/ LET q == Sub(position, sphere.p0)
           qq == LengthSquared(q)
           denHi == sphere.radiusDen \div Limb
           denLo == sphere.radiusDen % Limb
           numHi == <<sphere.radiusNum[1] \div Limb, sphere.radiusNum[2] \div Limb, sphere.radiusNum[3] \div Limb>>
           numLo == <<sphere.radiusNum[1] % Limb, sphere.radiusNum[2] % Limb, sphere.radiusNum[3] % Limb>>
           hi == qq * denHi - 2 * DotProduct(q, numHi)
           lo == qq * denLo - 2 * DotProduct(q, numLo)
           hi2 == hi + (lo \div Limb)
           lo2 == lo % Limb
       IN  hi2 < 0 \/ (hi2 = 0 /\ lo2 = 0)


(***************************************************************************)
(* TetrahedralMesh::FindAndRemoveIntersected.                              *)
(***************************************************************************)
\* Find first tetrahedron to remove: index of the first live tetrahedron
\* whose circumsphere contains the position; M_MAX_UNSIGNED when there is
\* none.
FindFirstIntersected(spheres, removed, position) ==
    LET intersected == {tetIndex \in DOMAIN removed :
                           ~removed[tetIndex] /\ IsInsideCircumsphere(spheres[tetIndex], position)}
    IN  IF intersected = {} THEN M_MAX_UNSIGNED
        ELSE CHOOSE tetIndex \in intersected : \A other \in intersected : tetIndex <= other

\* A loop body that does not look at the removed flag of the neighbour.
CollectNeighborIgnoringFlag(tets, spheres, position, tetIndex, st, faceIndex) ==
    LET neighborTetIndex == tets[tetIndex].neighbors_[faceIndex]
    IN  IF neighborTetIndex = M_MAX_UNSIGNED THEN st
        ELSE IF IsInsideCircumsphere(spheres[neighborTetIndex], position)
        THEN [removedTetrahedrons |-> PushBack(st.removedTetrahedrons, neighborTetIndex),
              removed_ |-> [st.removed_ EXCEPT ![neighborTetIndex] = TRUE]]
        ELSE st

\* Breadth search, the body of the loop over the four faces of tetrahedron
\* tetIndex.  st = [removedTetrahedrons, removed_].
CollectNeighbor(tets, spheres, position, tetIndex, st, faceIndex) ==
    LET neighborTetIndex == tets[tetIndex].neighbors_[faceIndex]
    IN  IF neighborTetIndex = M_MAX_UNSIGNED THEN st
        ELSE IF st.removed_[neighborTetIndex] THEN st
        ELSE IF IsInsideCircumsphere(spheres[neighborTetIndex], position)
        THEN [removedTetrahedrons |-> PushBack(st.removedTetrahedrons, neighborTetIndex),
              removed_ |-> [st.removed_ EXCEPT ![neighborTetIndex] = TRUE]]
        ELSE st

\* A breadth search that stops after the third entry of removedTetrahedrons:
\* the neighbours of the tetrahedrons queued later are never looked at.
BreadthSearchFirstThree(tets, spheres, position, first, removed) ==
    ForLoop(LAMBDA st, i :
                ForLoop(LAMBDA s, faceIndex :
                            CollectNeighbor(tets, spheres, position, st.removedTetrahedrons[i], s, faceIndex),
                        NoBreak, st, 0, 4),
            LAMBDA st, i : i < Size(st.removedTetrahedrons) /\ i < 3,
            [removedTetrahedrons |-> PushBack(EmptyArray, first),
             removed_ |-> [removed EXCEPT ![first] = TRUE]],
            0, Size(tets))

\* Breadth search: the loop over removedTetrahedrons, which grows meanwhile
\* (it never holds more entries than there are tetrahedrons).
BreadthSearch(tets, spheres, position, first, removed) ==
    ForLoop(LAMBDA st, i :
                ForLoop(LAMBDA s, faceIndex :
                            CollectNeighbor(tets, spheres, position, st.removedTetrahedrons[i], s, faceIndex),
                        NoBreak, st, 0, 4),
            LAMBDA st, i : i < Size(st.removedTetrahedrons),
            [removedTetrahedrons |-> PushBack(EmptyArray, first),
             removed_ |-> [removed EXCEPT ![first] = TRUE]],
            0, Size(tets))

\* A loop body that records, for a live neighbour, the face index of the
\* removed tetrahedron instead of the face index of the neighbour.
CollectHoleTriangleOwnFace(tets, removed, removedTetrahedrons, st, k) ==
    LET tetIndex == removedTetrahedrons[k \div 4]
        faceIndex == k % 4
        neighborTetIndex == tets[tetIndex].neighbors_[faceIndex]
    IN  IF neighborTetIndex = M_MAX_UNSIGNED
        THEN [holeTriangles |->
                 PushBack(st.holeTriangles,
                          GetTriangleFace(tets[tetIndex], faceIndex, M_MAX_UNSIGNED, M_MAX_UNSIGNED))]
        ELSE IF ~removed[neighborTetIndex]
        THEN LET neighborTetrahedron == tets[neighborTetIndex]
                 neighborFaceIndex == GetNeighborFaceIndex(neighborTetrahedron, tetIndex)
             IN  [holeTriangles |->
                     PushBack(st.holeTriangles,
                              GetTriangleFace(neighborTetrahedron, neighborFaceIndex,
                                              neighborTetIndex, faceIndex))]
        ELSE st

\* Collect triangles of the hole surface: the body of the loops over the
\* removed tetrahedrons and their faces, step k = 4 * i + faceIndex.
\* st = [holeTriangles].
CollectHoleTriangle(tets, removed, removedTetrahedrons, st, k) ==
    LET tetIndex == removedTetrahedrons[k \div 4]
        faceIndex == k % 4
        neighborTetIndex == tets[tetIndex].neighbors_[faceIndex]
    IN  IF neighborTetIndex = M_MAX_UNSIGNED
        THEN [holeTriangles |->
                 PushBack(st.holeTriangles,
                          GetTriangleFace(tets[tetIndex], faceIndex, M_MAX_UNSIGNED, M_MAX_UNSIGNED))]
        ELSE IF ~removed[neighborTetIndex]
        THEN LET neighborTetrahedron == tets[neighborTetIndex]
                 neighborFaceIndex == GetNeighborFaceIndex(neighborTetrahedron, tetIndex)
             IN  [holeTriangles |->
                     PushBack(st.holeTriangles,
                              GetTriangleFace(neighborTetrahedron, neighborFaceIndex,
                                              neighborTetIndex, neighborFaceIndex))]
        ELSE st

CollectHoleTriangles(tets, removed, removedTetrahedrons) ==
    ForLoop(LAMBDA st, k : CollectHoleTriangle(tets, removed, removedTetrahedrons, st, k),
            NoBreak, [holeTriangles |-> EmptyArray], 0, 4 * Size(removedTetrahedrons)).holeTriangles

\* Verify that all hole triangles are faced in right direction: the body of
\* the loop; a triangle is normalised in place before the test, and the loop
\* is left at the first triangle that fails.  st = [valid, holeTriangles_].
VerifyHoleTriangle(verts, position, k, st, i) ==
    IF st.holeTriangles_[i].tetIndex_ = M_MAX_UNSIGNED THEN st
    ELSE LET triangle == Normalize(st.holeTriangles_[i], verts)
             p1 == verts[triangle.indices_[0]]
             p2 == verts[triangle.indices_[1]]
             p3 == verts[triangle.indices_[2]]
             normal == CrossProduct(Sub(p2, p1), Sub(p3, p1))
             distance == DotProduct(Sub(position, p1), normal)
         IN  [valid |-> ~BelowLargeEpsilon(distance, k),
              holeTriangles_ |-> [st.holeTriangles_ EXCEPT ![i] = triangle]]

VerifyHoleTriangles(verts, position, k, holeTriangles) ==
    ForLoop(LAMBDA st, i : VerifyHoleTriangle(verts, position, k, st, i),
            LAMBDA st, i : st.valid,
            [valid |-> TRUE, holeTriangles_ |-> holeTriangles], 0, Size(holeTriangles))

\* Build hole surface: AddFace for every hole triangle, left at the first
\* failure.  [ok, faces_].
BuildHoleSurface(holeTriangles) ==
    ForLoop(LAMBDA st, i : AddFace(st.faces_, holeTriangles[i]),
            LAMBDA st, i : st.ok,
            [ok |-> TRUE, faces_ |-> EmptyArray], 0, Size(holeTriangles))

\* The three edges of every hole triangle, as pushed to debugHighlightEdges_.
HighlightEdges(holeTriangles) ==
    MakeArray(3 * Size(holeTriangles),
              LAMBDA e : <<holeTriangles[e \div 3].indices_[e % 3],
                           holeTriangles[e \div 3].indices_[(e + 1) % 3]>>)

\* A revert that starts behind the first entry of removedTetrahedrons and so
\* leaves the seed tetrahedron flagged.
RevertRemovedButFirst(removed, removedTetrahedrons) ==
    MakeArray(Size(removed), LAMBDA t :
        IF \E i \in 1 .. Size(removedTetrahedrons) - 1 : removedTetrahedrons[i] = t
        THEN FALSE ELSE removed[t])

\* Revert all changes: for (unsigned tetIndex : removedTetrahedrons)
\* ctx.removed_[tetIndex] = false.
RevertRemoved(removed, removedTetrahedrons) ==
    MakeArray(Size(removed), LAMBDA t : IF t \in Range(removedTetrahedrons) THEN FALSE ELSE removed[t])

\* The results of FindAndRemoveIntersected are records of the return path
\* taken (outcome), the returned bool (ok), ctx.removed_, the output arguments
\* removedTetrahedrons and holeSurface, and the edges appended to
\* debugHighlightEdges_.
\*
\* Build hole surface: the two failure returns and the final return true,
\* for the surface built as far as AddFace went.
ReturnHoleSurface(bfs, built) ==
    IF ~built.ok
    THEN [outcome |-> "addFace", ok |-> FALSE, removed_ |-> bfs.removed_,
          removedTetrahedrons |-> bfs.removedTetrahedrons, holeSurface |-> EmptyArray,
          highlight |-> EmptyArray]
    ELSE IF ~IsClosedSurface(built.faces_)
    THEN [outcome |-> "notClosed", ok |-> FALSE, removed_ |-> bfs.removed_,
          removedTetrahedrons |-> bfs.removedTetrahedrons, holeSurface |-> EmptyArray,
          highlight |-> EmptyArray]
    ELSE [outcome |-> "ok", ok |-> TRUE, removed_ |-> bfs.removed_,
          removedTetrahedrons |-> bfs.removedTetrahedrons, holeSurface |-> built.faces_,
          highlight |-> EmptyArray]

\* Revert all changes if invalid or if dump error mode is on, else go on to
\* build the hole surface.
RevertOrBuildHoleSurface(bfs, verified, dumpErrors) ==
    IF ~verified.valid \/ dumpErrors
    THEN [outcome |-> IF verified.valid THEN "dumpValid" ELSE "orientation",
          ok |-> FALSE, removed_ |-> RevertRemoved(bfs.removed_, bfs.removedTetrahedrons),
          removedTetrahedrons |-> EmptyArray, holeSurface |-> EmptyArray,
          highlight |-> IF dumpErrors THEN HighlightEdges(verified.holeTriangles_)
                        ELSE EmptyArray]
    ELSE ReturnHoleSurface(bfs, BuildHoleSurface(verified.holeTriangles_))

\* The function from the collection of the hole triangles on, for the
\* result bfs of the breadth search.
CarveHole(tets, verts, position, k, dumpErrors, bfs) ==
    RevertOrBuildHoleSurface(
        bfs,
        VerifyHoleTriangles(verts, position, k,
                            CollectHoleTriangles(tets, bfs.removed_, bfs.removedTetrahedrons)),
        dumpErrors)

\* The function from the test of the seed on, for the first tetrahedron to
\* remove.
RemoveIntersectedFrom(tets, verts, spheres, removed, position, k, dumpErrors, first) ==
    IF first = M_MAX_UNSIGNED
    THEN [outcome |-> "noSeed", ok |-> FALSE, removed_ |-> removed,
          removedTetrahedrons |-> EmptyArray, holeSurface |-> EmptyArray, highlight |-> EmptyArray]
    ELSE CarveHole(tets, verts, position, k, dumpErrors,
                   BreadthSearch(tets, spheres, position, first, removed))

\* The whole function.
FindAndRemoveIntersected(tets, verts, spheres, removed, position, k, dumpErrors) ==
    RemoveIntersectedFrom(tets, verts, spheres, removed, position, k, dumpErrors,
                          FindFirstIntersected(spheres, removed, position))

(***************************************************************************)
(* Carving and filling.                                                    *)
(***************************************************************************)
\* neighbors_[faceIndex] = value; a faceIndex of 4 (GetNeighborFaceIndex found
\* nothing) lands behind the array and leaves the four slots as they are.
SetNeighbor(array, index, slot, value) ==
    IF slot < 4 THEN [array EXCEPT ![index].neighbors_[slot] = value] ELSE array

\* A loop body that clears the slot of the removed tetrahedron only and
\* leaves the link of its neighbour in place.
DisconnectRemovedFaceOneWay(removedTetrahedrons, st, k) ==
    LET tetIndex == removedTetrahedrons[k \div 4]
        faceIndex == k % 4
        neighborTetIndex == st.tetrahedrons_[tetIndex].neighbors_[faceIndex]
    IN  IF neighborTetIndex # M_MAX_UNSIGNED
        THEN [tetrahedrons_ |-> SetNeighbor(st.tetrahedrons_, tetIndex, faceIndex, M_MAX_UNSIGNED)]
        ELSE st

\* TetrahedralMesh::DisconnectRemovedTetrahedrons, the body of the loops, step
\* k = 4 * i + faceIndex.  st = [tetrahedrons_].
DisconnectRemovedFace(removedTetrahedrons, st, k) ==
    LET tetIndex == removedTetrahedrons[k \div 4]
        faceIndex == k % 4
        neighborTetIndex == st.tetrahedrons_[tetIndex].neighbors_[faceIndex]
    IN  IF neighborTetIndex # M_MAX_UNSIGNED
        THEN LET neighborFaceIndex == GetNeighborFaceIndex(st.tetrahedrons_[neighborTetIndex], tetIndex)
             IN  [tetrahedrons_ |->
                     SetNeighbor(SetNeighbor(st.tetrahedrons_, tetIndex, faceIndex, M_MAX_UNSIGNED),
                                 neighborTetIndex, neighborFaceIndex, M_MAX_UNSIGNED)]
        ELSE st

DisconnectRemovedTetrahedrons(tets, removedTetrahedrons) ==
    ForLoop(LAMBDA st, k : DisconnectRemovedFace(removedTetrahedrons, st, k),
            NoBreak, [tetrahedrons_ |-> tets], 0, 4 * Size(removedTetrahedrons)).tetrahedrons_

\* A value-initialised HighPrecisionSphere (ctx.circumspheres_.push_back()).
DefaultSphere == [degenerate |-> FALSE, p0 |-> <<0, 0, 0>>, radiusNum |-> <<0, 0, 0>>, radiusDen |-> 1]

\* An allocation that appends one slot per hole face whatever the number of
\* removed tetrahedrons.
AllocateTetrahedronsPerFace(m, holeSize) ==
    ForLoop(LAMBDA st, n :
                [tetrahedrons_ |-> PushBack(st.tetrahedrons_, DefaultTetrahedron),
                 circumspheres_ |-> PushBack(st.circumspheres_, DefaultSphere),
                 removed_ |-> PushBack(st.removed_, TRUE),
                 removedTetrahedrons |-> PushBack(st.removedTetrahedrons, Size(st.tetrahedrons_))],
            NoBreak, m, 0, holeSize)

\* Allocate space for new tetrahedrons (BuildTetrahedrons): new slots are
\* appended, flagged removed, until there is one slot per hole face.
\* m = [tetrahedrons_, circumspheres_, removed_, removedTetrahedrons].
AllocateTetrahedrons(m, holeSize) ==
    ForLoop(LAMBDA st, n :
                [tetrahedrons_ |-> PushBack(st.tetrahedrons_, DefaultTetrahedron),
                 circumspheres_ |-> PushBack(st.circumspheres_, DefaultSphere),
                 removed_ |-> PushBack(st.removed_, TRUE),
                 removedTetrahedrons |-> PushBack(st.removedTetrahedrons, Size(st.tetrahedrons_))],
            LAMBDA st, n : Size(st.removedTetrahedrons) < holeSize,
            m, Size(m.removedTetrahedrons), holeSize)

\* A loop body that leaves the sphere of the slot as it is.
FillHoleFaceStaleSphere(verts, outputTetrahedrons, holeSurface, centerIndex, m, i) ==
    LET newTetIndex == outputTetrahedrons[i]
        holeTriangle == holeSurface[i]
        tetrahedron ==
            [indices_ |-> Arr4(holeTriangle.indices_[0], holeTriangle.indices_[1],
                               holeTriangle.indices_[2], centerIndex),
             neighbors_ |-> Arr4(outputTetrahedrons[holeTriangle.neighbors_[0]],
                                 outputTetrahedrons[holeTriangle.neighbors_[1]],
                                 outputTetrahedrons[holeTriangle.neighbors_[2]],
                                 holeTriangle.tetIndex_)]
        placed == [m.tetrahedrons_ EXCEPT ![newTetIndex] = tetrahedron]
        linked == IF holeTriangle.tetIndex_ # M_MAX_UNSIGNED
                  THEN SetNeighbor(placed, holeTriangle.tetIndex_, holeTriangle.tetFace_, newTetIndex)
                  ELSE placed
        slotFree == \/ holeTriangle.tetIndex_ = M_MAX_UNSIGNED
                    \/ placed[holeTriangle.tetIndex_].neighbors_[holeTriangle.tetFace_] = M_MAX_UNSIGNED
    IN  [tetrahedrons_ |-> linked,
         circumspheres_ |-> m.circumspheres_,
         removed_ |-> [m.removed_ EXCEPT ![newTetIndex] = FALSE],
         assertFailed |-> m.assertFailed \/ ~slotFree]

\* A loop body that takes the neighbours of the new tetrahedron from the
\* hole triangle one edge further.
FillHoleFaceShifted(verts, outputTetrahedrons, holeSurface, centerIndex, m, i) ==
    LET newTetIndex == outputTetrahedrons[i]
        holeTriangle == holeSurface[i]
        tetrahedron ==
            [indices_ |-> Arr4(holeTriangle.indices_[0], holeTriangle.indices_[1],
                               holeTriangle.indices_[2], centerIndex),
             neighbors_ |-> Arr4(outputTetrahedrons[holeTriangle.neighbors_[1]],
                                 outputTetrahedrons[holeTriangle.neighbors_[2]],
                                 outputTetrahedrons[holeTriangle.neighbors_[0]],
                                 holeTriangle.tetIndex_)]
        placed == [m.tetrahedrons_ EXCEPT ![newTetIndex] = tetrahedron]
        linked == IF holeTriangle.tetIndex_ # M_MAX_UNSIGNED
                  THEN SetNeighbor(placed, holeTriangle.tetIndex_, holeTriangle.tetFace_, newTetIndex)
                  ELSE placed
        slotFree == \/ holeTriangle.tetIndex_ = M_MAX_UNSIGNED
                    \/ placed[holeTriangle.tetIndex_].neighbors_[holeTriangle.tetFace_] = M_MAX_UNSIGNED
    IN  [tetrahedrons_ |-> linked,
         circumspheres_ |-> [m.circumspheres_ EXCEPT
                                ![newTetIndex] = GetTetrahedronCircumsphere(verts, linked[newTetIndex])],
         removed_ |-> [m.removed_ EXCEPT ![newTetIndex] = FALSE],
         assertFailed |-> m.assertFailed \/ ~slotFree]

\* TetrahedralMesh::FillStarShapedHole, the body of the loop over the hole
\* faces.  m = [tetrahedrons_, circumspheres_, removed_, assertFailed].
FillHoleFace(verts, outputTetrahedrons, holeSurface, centerIndex, m, i) ==
    LET newTetIndex == outputTetrahedrons[i]
        holeTriangle == holeSurface[i]
        tetrahedron ==
            [indices_ |-> Arr4(holeTriangle.indices_[0], holeTriangle.indices_[1],
                               holeTriangle.indices_[2], centerIndex),
             neighbors_ |-> Arr4(outputTetrahedrons[holeTriangle.neighbors_[0]],
                                 outputTetrahedrons[holeTriangle.neighbors_[1]],
                                 outputTetrahedrons[holeTriangle.neighbors_[2]],
                                 holeTriangle.tetIndex_)]
        placed == [m.tetrahedrons_ EXCEPT ![newTetIndex] = tetrahedron]
        linked == IF holeTriangle.tetIndex_ # M_MAX_UNSIGNED
                  THEN SetNeighbor(placed, holeTriangle.tetIndex_, holeTriangle.tetFace_, newTetIndex)
                  ELSE placed
        slotFree == \/ holeTriangle.tetIndex_ = M_MAX_UNSIGNED
                    \/ placed[holeTriangle.tetIndex_].neighbors_[holeTriangle.tetFace_] = M_MAX_UNSIGNED
    IN  [tetrahedrons_ |-> linked,
         circumspheres_ |-> [m.circumspheres_ EXCEPT
                                ![newTetIndex] = GetTetrahedronCircumsphere(verts, linked[newTetIndex])],
         removed_ |-> [m.removed_ EXCEPT ![newTetIndex] = FALSE],
         assertFailed |-> m.assertFailed \/ ~slotFree]

FillStarShapedHole(m, verts, outputTetrahedrons, holeSurface, centerIndex) ==
    ForLoop(LAMBDA st, i : FillHoleFace(verts, outputTetrahedrons, holeSurface, centerIndex, st, i),
            NoBreak, m, 0, Size(holeSurface))

\* One iteration of the range-for over verticesQueue in BuildTetrahedrons,
\* the attempt to insert vertex newVertexIndex, yields what
\* FindAndRemoveIntersected returned and the mesh and context afterwards.
\*
\* Fill hole with tetrahedrons, for the slots allocated.
FillAllocated(found, verts, newVertexIndex, allocated) ==
    [found |-> found] @@
    FillStarShapedHole([tetrahedrons_ |-> allocated.tetrahedrons_,
                        circumspheres_ |-> allocated.circumspheres_,
                        removed_ |-> allocated.removed_, assertFailed |-> FALSE],
                       verts, allocated.removedTetrahedrons, found.holeSurface, newVertexIndex)

\* The body of the iteration behind the call of FindAndRemoveIntersected.
PostponeOrFill(tets, verts, spheres, newVertexIndex, found) ==
    IF ~found.ok
    THEN [found |-> found, tetrahedrons_ |-> tets, circumspheres_ |-> spheres,
          removed_ |-> found.removed_, assertFailed |-> FALSE]
    ELSE FillAllocated(found, verts, newVertexIndex,
             AllocateTetrahedrons(
                 [tetrahedrons_ |-> DisconnectRemovedTetrahedrons(tets, found.removedTetrahedrons),
                  circumspheres_ |-> spheres,
                  removed_ |-> found.removed_,
                  removedTetrahedrons |-> found.removedTetrahedrons],
                 Size(found.holeSurface)))

InsertOne(tets, verts, spheres, removed, newVertexIndex, k) ==
    PostponeOrFill(tets, verts, spheres, newVertexIndex,
                   FindAndRemoveIntersected(tets, verts, spheres, removed, verts[newVertexIndex], k, FALSE))

(***************************************************************************)
(* Finalisation of the triangulation.                                      *)
(***************************************************************************)
\* TetrahedralMesh::IsAdjacencyValid.  A neighbour index outside the array
\* counts as invalid.
IsAdjacencyValid(tets, fullyConnected) ==
    \A tetIndex \in DOMAIN tets : \A faceIndex \in 0 .. 3 :
        LET neighborIndex == tets[tetIndex].neighbors_[faceIndex]
        IN  IF neighborIndex # M_MAX_UNSIGNED
            THEN neighborIndex \in DOMAIN tets /\ HasNeighbor(tets[neighborIndex], tetIndex)
            ELSE ~fullyConnected

\* A test that takes the super mesh to have one vertex less.
ContainsSuperMeshVertexButLast(tet) ==
    \E j \in 0 .. 3 : ULess(tet.indices_[j], NumSuperMeshVertices - 1)

ContainsSuperMeshVertex(tet) ==
    \E j \in 0 .. 3 : ULess(tet.indices_[j], NumSuperMeshVertices)

\* A disconnect that clears the slot of the removed tetrahedron and leaves
\* the slot of its neighbour.
DisconnectAdjacencyOwnSlot(tetIndex, m, faceIndex) ==
    LET neighborIndex == m.tetrahedrons_[tetIndex].neighbors_[faceIndex]
    IN  IF neighborIndex # M_MAX_UNSIGNED
        THEN [m EXCEPT !.tetrahedrons_ = SetNeighbor(m.tetrahedrons_, tetIndex, faceIndex, M_MAX_UNSIGNED)]
        ELSE m

\* Disconnect adjacency of removed tetrahedron tetIndex: the body of the loop
\* over its faces.  m = [tetrahedrons_, removed_, assertFailed].
DisconnectAdjacency(tetIndex, m, faceIndex) ==
    LET neighborIndex == m.tetrahedrons_[tetIndex].neighbors_[faceIndex]
    IN  IF neighborIndex # M_MAX_UNSIGNED
        THEN LET neighborFaceIndex == GetNeighborFaceIndex(m.tetrahedrons_[neighborIndex], tetIndex)
             IN  [m EXCEPT !.tetrahedrons_ =
                               SetNeighbor(m.tetrahedrons_, neighborIndex, neighborFaceIndex, M_MAX_UNSIGNED),
                           !.assertFailed = m.assertFailed \/ ~(neighborFaceIndex < 4)]
        ELSE m

\* The body of the loop of DisconnectSuperMeshTetrahedrons.
DisconnectSuperMeshTetrahedron(m, tetIndex) ==
    IF ContainsSuperMeshVertex(m.tetrahedrons_[tetIndex])
    THEN ForLoop(LAMBDA st, faceIndex : DisconnectAdjacency(tetIndex, st, faceIndex),
                 NoBreak, [m EXCEPT !.removed_[tetIndex] = TRUE], 0, 4)
    ELSE IF ~m.removed_[tetIndex] THEN m
    ELSE ForLoop(LAMBDA st, faceIndex : DisconnectAdjacency(tetIndex, st, faceIndex), NoBreak, m, 0, 4)

\* TetrahedralMesh::DisconnectSuperMeshTetrahedrons: [tetrahedrons_, removed_, assertFailed].
DisconnectSuperMeshTetrahedrons(tets, removed) ==
    ForLoop(DisconnectSuperMeshTetrahedron, NoBreak,
            [tetrahedrons_ |-> tets, removed_ |-> removed, assertFailed |-> FALSE], 0, Size(tets))

\* Rebuild array and create index (RemoveMarkedTetrahedrons): the number of
\* surviving tetrahedrons before oldTetIndex.
NumSurvivorsBefore(removed, oldTetIndex) ==
    Cardinality({t \in 0 .. oldTetIndex - 1 : ~removed[t]})
OldToNewIndexMap(removed, numOld) ==
    MakeArray(numOld, LAMBDA oldTetIndex :
        IF removed[oldTetIndex] THEN M_MAX_UNSIGNED ELSE NumSurvivorsBefore(removed, oldTetIndex))

\* TetrahedralMesh::RemoveMarkedTetrahedrons: [tetrahedrons_, assertFailed].
RemoveMarkedTetrahedrons(tets, removed) ==
    LET oldToNewIndexMap == OldToNewIndexMap(removed, Size(tets))
        survivors == {t \in DOMAIN tets : ~removed[t]}
        oldIndexOf(new) == CHOOSE t \in survivors : oldToNewIndexMap[t] = new
        adjust(oldIndex) == IF oldIndex # M_MAX_UNSIGNED THEN oldToNewIndexMap[oldIndex] ELSE oldIndex
        rebuilt(new) ==
            LET tet == tets[oldIndexOf(new)]
            IN  [tet EXCEPT !.neighbors_ = Arr4(adjust(tet.neighbors_[0]), adjust(tet.neighbors_[1]),
                                                adjust(tet.neighbors_[2]), adjust(tet.neighbors_[3]))]
    IN  [tetrahedrons_ |-> MakeArray(Cardinality(survivors), rebuilt),
         assertFailed |->
             \E t \in survivors : \E faceIndex \in 0 .. 3 :
                 /\ tets[t].neighbors_[faceIndex] # M_MAX_UNSIGNED
                 /\ oldToNewIndexMap[tets[t].neighbors_[faceIndex]] = M_MAX_UNSIGNED]

\* A rotation to the right.
RotateRight(a, n) == MakeArray(Size(a), LAMBDA i : a[(i + Size(a) - n) % Size(a)])

\* ea::rotate(begin, begin + n, end).
RotateLeft(a, n) == MakeArray(Size(a), LAMBDA i : a[(i + n) % Size(a)])

\* The index fix-up of debugHighlightEdges_ in RemoveSuperMeshVertices.
ShiftHighlightIndex(index, numVertices) ==
    IF ULess(index, NumSuperMeshVertices)
    THEN index + (numVertices - NumSuperMeshVertices)
    ELSE index - NumSuperMeshVertices

\* TetrahedralMesh::RemoveSuperMeshVertices: [vertices_, tetrahedrons_, debugHighlightEdges_].
RemoveSuperMeshVertices(verts, tets, edges) ==
    [vertices_ |-> RotateLeft(verts, NumSuperMeshVertices),
     tetrahedrons_ |->
         MakeArray(Size(tets), LAMBDA t :
             [tets[t] EXCEPT !.indices_ = Arr4(tets[t].indices_[0] - NumSuperMeshVertices,
                                               tets[t].indices_[1] - NumSuperMeshVertices,
                                               tets[t].indices_[2] - NumSuperMeshVertices,
                                               tets[t].indices_[3] - NumSuperMeshVertices)]),
     debugHighlightEdges_ |->
         MakeArray(Size(edges), LAMBDA e :
             <<ShiftHighlightIndex(edges[e][1], Size(verts)), ShiftHighlightIndex(edges[e][2], Size(verts))>>)]

\* The members of a set of indices in ascending order (push_back in a loop
\* over increasing vertexIndex).
Ascending(set) ==
    MakeArray(Cardinality(set), LAMBDA n : CHOOSE v \in set : Cardinality({w \in set : w < v}) = n)

\* A scan that starts at vertex 1.
UpdateIgnoredVerticesFromOne(verts, tets) ==
    LET used == {tets[t].indices_[j] : t \in DOMAIN tets, j \in 0 .. 3}
    IN  Ascending({v \in 1 .. Size(verts) - NumSuperMeshVertices - 1 : v \notin used})

\* A scan that also runs over the super-mesh vertices at the tail of vertices_.
UpdateIgnoredVerticesWithTail(verts, tets) ==
    LET used == {tets[t].indices_[j] : t \in DOMAIN tets, j \in 0 .. 3}
    IN  Ascending({v \in 0 .. Size(verts) - 1 : v \notin used})

\* TetrahedralMesh::UpdateIgnoredVertices: the new ignoredVertices_.
UpdateIgnoredVertices(verts, tets) ==
    LET used == {tets[t].indices_[j] : t \in DOMAIN tets, j \in 0 .. 3}
    IN  Ascending({v \in 0 .. Size(verts) - NumSuperMeshVertices - 1 : v \notin used})

\* The body of the loops of BuildHullSurface, step k = 4 * tetIndex +
\* faceIndex; the result of AddFace is not looked at.  st = [faces_].
CollectHullFace(tets, st, k) ==
    LET tetIndex == k \div 4
        faceIndex == k % 4
    IN  IF tets[tetIndex].neighbors_[faceIndex] # M_MAX_UNSIGNED THEN st
        ELSE [faces_ |-> AddFace(st.faces_, GetTriangleFace(tets[tetIndex], faceIndex, tetIndex, faceIndex)).faces_]

\* TetrahedralMesh::BuildHullSurface: [faces_, assertFailed].
BuildHullSurface(tets, verts) ==
    LET collected == ForLoop(LAMBDA st, k : CollectHullFace(tets, st, k),
                             NoBreak, [faces_ |-> EmptyArray], 0, 4 * Size(tets)).faces_
        normalized == MakeArray(Size(collected), LAMBDA f : Normalize(collected[f], verts))
    IN  [faces_ |-> normalized, assertFailed |-> ~IsClosedSurface(normalized)]

\* The body of the loop of BuildOuterTetrahedrons.  st = [tetrahedrons_].
LinkOuterTetrahedron(hullFaces, numInner, st, tetIndex) ==
    LET hullTriangle == hullFaces[tetIndex - numInner]
        tetrahedron ==
            [indices_ |-> Arr4(hullTriangle.indices_[0], hullTriangle.indices_[1],
                               hullTriangle.indices_[2], Infinity3),
             neighbors_ |-> Arr4(numInner + hullTriangle.neighbors_[0],
                                 numInner + hullTriangle.neighbors_[1],
                                 numInner + hullTriangle.neighbors_[2],
                                 hullTriangle.tetIndex_)]
    IN  [tetrahedrons_ |->
            SetNeighbor([st.tetrahedrons_ EXCEPT ![tetIndex] = tetrahedron],
                        hullTriangle.tetIndex_, hullTriangle.tetFace_, tetIndex)]

\* TetrahedralMesh::BuildOuterTetrahedrons: [tetrahedrons_, numInnerTetrahedrons_, assertFailed].
BuildOuterTetrahedrons(tets, hullFaces) ==
    LET numInner == Size(tets)
        resized == MakeArray(numInner + Size(hullFaces),
                             LAMBDA t : IF t < numInner THEN tets[t] ELSE DefaultTetrahedron)
        linked == ForLoop(LAMBDA st, tetIndex : LinkOuterTetrahedron(hullFaces, numInner, st, tetIndex),
                          NoBreak, [tetrahedrons_ |-> resized], numInner, Size(resized)).tetrahedrons_
    IN  [tetrahedrons_ |-> linked, numInnerTetrahedrons_ |-> numInner,
         assertFailed |-> ~IsAdjacencyValid(linked, TRUE)]

(***************************************************************************)
(* Hull normals and matrices.                                              *)
(***************************************************************************)
\* hullNormals_.resize(n): what is there stays, new entries are zero.
ResizeNormals(normals, n) ==
    MakeArray(n, LAMBDA i : IF i < Size(normals) THEN normals[i] ELSE <<0, 0, 0>>)

\* A normal of hullNormals_ is kept as a vector d of integers that stands for
\* the unit vector d / |d| (for zero if d is zero).  While the normals of the
\* hull faces are added to it, it is the pair [unit |-> d, sum |-> s] that
\* stands for d / |d| + s.
\*
\* Accumulate vertex normals: the body of the loop of CalculateHullNormals
\* over the hull faces.  st = [hullNormals_].
AccumulateHullNormal(verts, hullFaces, st, f) ==
    LET triangle == hullFaces[f]
        p1 == verts[triangle.indices_[0]]
        p2 == verts[triangle.indices_[1]]
        p3 == verts[triangle.indices_[2]]
        normal == CrossProduct(Sub(p2, p1), Sub(p3, p1))
    IN  [hullNormals_ |->
            [st.hullNormals_ EXCEPT ![triangle.indices_[0]].sum = Add(@, normal),
                                    ![triangle.indices_[1]].sum = Add(@, normal),
                                    ![triangle.indices_[2]].sum = Add(@, normal)]]

\* The largest r with r * r <= x.
FloorSqrt(x) == CHOOSE r \in 0 .. x : r * r <= x /\ (r + 1) * (r + 1) > x

\* Normalize outputs: the body of the loop, the vector that stands for the
\* direction of d / |d| + s, or zero if that is zero.  The direction is that
\* of s if d is zero, that of d if s is zero or points the same way, and that
\* of |d| * s + d otherwise, where the model takes |d| rounded down.
NormalizeHullNormal(d, s) ==
    IF d = <<0, 0, 0>> THEN s
    ELSE IF s = <<0, 0, 0>> THEN d
    ELSE IF CrossProduct(d, s) = <<0, 0, 0>>
    THEN IF DotProduct(d, s) > 0 THEN d
         ELSE IF LengthSquared(s) = 1 THEN <<0, 0, 0>> ELSE s
    ELSE Add(Mul(s, FloorSqrt(LengthSquared(d))), d)

\* TetrahedralMesh::CalculateHullNormals: the new hullNormals_.
AccumulateHullNormals(verts, hullFaces, resized) ==
    ForLoop(LAMBDA st, f : AccumulateHullNormal(verts, hullFaces, st, f), NoBreak,
            [hullNormals_ |-> MakeArray(Size(resized), LAMBDA i : [unit |-> resized[i], sum |-> <<0, 0, 0>>])],
            0, Size(hullFaces)).hullNormals_
NormalizeHullNormals(accumulated) ==
    MakeArray(Size(accumulated), LAMBDA i : NormalizeHullNormal(accumulated[i].unit, accumulated[i].sum))
CalculateHullNormals(verts, hullFaces, normals) ==
    NormalizeHullNormals(AccumulateHullNormals(verts, hullFaces, ResizeNormals(normals, Size(verts))))

\* The matrix of an inner tetrahedron (CalculateInnerMatrices): the inverse
\* of the matrix with the columns u1, u2, u3, as the rows num / den.
InnerMatrix(verts, tet) ==
    LET p0 == verts[tet.indices_[0]]
        u1 == Sub(verts[tet.indices_[1]], p0)
        u2 == Sub(verts[tet.indices_[2]], p0)
        u3 == Sub(verts[tet.indices_[3]], p0)
    IN  [num |-> <<CrossProduct(u2, u3), CrossProduct(u3, u1), CrossProduct(u1, u2)>>,
         den |-> DotProduct(u1, CrossProduct(u2, u3)),
         scaled |-> FALSE]

\* A value-initialised matrix_.
DefaultMatrix == [num |-> << <<0, 0, 0>>, <<0, 0, 0>>, <<0, 0, 0>> >>, den |-> 1, scaled |-> FALSE]

\* TetrahedralMesh::CalculateInnerMatrices: matrix_ of every tetrahedron.
CalculateInnerMatrices(verts, tets, numInner) ==
    MakeArray(Size(tets), LAMBDA t : IF t < numInner THEN InnerMatrix(verts, tets[t]) ELSE DefaultMatrix)

\* The leading coefficient a of the cubic (CalculateOuterMatrices), as the
\* code writes it in Ap, Bp, Cp.
CubicCoefficient(Ap, Bp, Cp) ==
    Ap[1] * Bp[2] * Cp[3] - Ap[2] * Bp[1] * Cp[3] + Ap[3] * Bp[1] * Cp[2]
        - Ap[3] * Bp[2] * Cp[1] + Ap[2] * Bp[3] * Cp[1] - Ap[1] * Bp[3] * Cp[2]

\* Abs(a) > M_EPSILON (10^-6) for Ap = n0 - n2, Bp = n1 - n2, Cp = -n2 with
\* the unit normals n0, n1, n2.  a is a determinant, so it equals
\* CubicCoefficient(n0, n1, -n2), and with the sums N0, N1, N2 that the
\* model keeps it is CubicCoefficient(N0, N1, -N2) / (|N0| |N1| |N2|); a zero
\* normal stays zero and makes a zero.  A non-zero numerator is at least 1,
\* and the product of the lengths stays below 10^6 for the hulls of the model.
LeadingCoefficientAboveEpsilon(n0, n1, n2) ==
    CubicCoefficient(n0, n1, Mul(n2, 0 - 1)) # 0

\* The body of the loop of CalculateOuterMatrices: the matrix of the cubic,
\* of which the model keeps whether it was scaled by 1 / a, and the tag of
\* the fourth corner.  st = [tetrahedrons_, matrix_].
CalculateOuterMatrix(normals, st, tetIndex) ==
    LET tetrahedron == st.tetrahedrons_[tetIndex]
    IN  IF LeadingCoefficientAboveEpsilon(normals[tetrahedron.indices_[0]],
                                          normals[tetrahedron.indices_[1]],
                                          normals[tetrahedron.indices_[2]])
        THEN [tetrahedrons_ |-> st.tetrahedrons_,
              matrix_ |-> [st.matrix_ EXCEPT ![tetIndex] = [DefaultMatrix EXCEPT !.scaled = TRUE]]]
        ELSE [tetrahedrons_ |-> [st.tetrahedrons_ EXCEPT ![tetIndex].indices_[3] = Infinity2],
              matrix_ |-> st.matrix_]

\* A loop that starts at the first tetrahedron instead of the first outer one.
CalculateOuterMatricesOfAll(m, normals, numInner) ==
    ForLoop(LAMBDA st, tetIndex : CalculateOuterMatrix(normals, st, tetIndex), NoBreak,
            m, 0, Size(m.tetrahedrons_))

\* TetrahedralMesh::CalculateOuterMatrices: [tetrahedrons_, matrix_].
CalculateOuterMatrices(m, normals, numInner) ==
    ForLoop(LAMBDA st, tetIndex : CalculateOuterMatrix(normals, st, tetIndex), NoBreak,
            m, numInner, Size(m.tetrahedrons_))

(***************************************************************************)
(* TetrahedralMesh::CollectEdges.                                          *)
(***************************************************************************)
\* Collect everything: the pair (indices_[i], indices_[j]) for every inner
\* tetrahedron and every i and j below 4.
CollectEverything(tets, numInner) ==
    MakeArray(16 * numInner, LAMBDA k :
        <<tets[k \div 16].indices_[(k % 16) \div 4], tets[k \div 16].indices_[k % 4]>>)

\* if (edge.first > edge.second) swap, for every edge.
SwapEdges(edges) ==
    MakeArray(Size(edges), LAMBDA k :
        IF ULess(edges[k][2], edges[k][1]) THEN <<edges[k][2], edges[k][1]>> ELSE edges[k])

\* operator< of ea::pair<unsigned, unsigned>.
PairLess(a, b) == ULess(a[1], b[1]) \/ (a[1] = b[1] /\ ULess(a[2], b[2]))

\* ea::sort: the values of the array in ascending order, every value as many
\* times as the array holds it.
DistinctAscending(values) ==
    MakeArray(Cardinality(values), LAMBDA n :
        CHOOSE e \in values : Cardinality({w \in values : PairLess(w, e)}) = n)
SortStep(edges, distinct, st, i) ==
    ForLoop(LAMBDA s, n : [sorted |-> PushBack(s.sorted, distinct[i])], NoBreak, st,
            0, Cardinality({k \in DOMAIN edges : edges[k] = distinct[i]}))
SortFrom(edges, distinct) ==
    ForLoop(LAMBDA st, i : SortStep(edges, distinct, st, i), NoBreak,
            [sorted |-> EmptyArray], 0, Size(distinct)).sorted
Sort(edges) == SortFrom(edges, DistinctAscending(Range(edges)))

\* edges.erase(ea::unique(...), edges.end()): of every run of equal
\* neighbours the first stays.
Unique(edges) ==
    ForLoop(LAMBDA st, k :
                IF k > 0 /\ edges[k] = edges[k - 1] THEN st
                ELSE [kept |-> PushBack(st.kept, edges[k])],
            NoBreak, [kept |-> EmptyArray], 0, Size(edges)).kept

CollectEdges(tets, numInner) == Unique(Sort(SwapEdges(CollectEverything(tets, numInner))))

(***************************************************************************)
(* Inputs of Define.                                                       *)
(***************************************************************************)
\* Lists of candidate input positions on the lattice.  An input of Define is
\* a sub-list (same order, at most MaxPoints long) of the first NumCandidates
\* positions of one of the lists.  The last list repeats positions: an input
\* drawn from it can hold the same point twice.  The list before it has
\* inputs of which a build at the fine scale excludes two vertices.
CandidateLists ==
    << << <<1, 2, 2>>, <<2, 2, 0>>, <<1, 1, 0>>, <<1, 2, 1>>, <<1, 2, 0>>, <<0, 0, 2>>, <<2, 0, 1>> >>,
       << <<1, 0, 2>>, <<1, 1, 2>>, <<0, 1, 0>>, <<0, 1, 1>>, <<2, 1, 0>>, <<0, 0, 0>>, <<2, 2, 2>> >>,
       << <<1, 2, 0>>, <<2, 0, 2>>, <<1, 1, 0>>, <<2, 2, 1>>, <<0, 0, 1>>, <<0, 2, 2>>, <<2, 1, 1>> >>,
       << <<0, 0, 1>>, <<2, 0, 2>>, <<1, 2, 2>>, <<1, 1, 2>>, <<1, 1, 1>>, <<0, 1, 0>>, <<0, 2, 1>> >>,
       << <<0, 0, 0>>, <<2, 0, 0>>, <<0, 2, 0>>, <<0, 0, 2>>, <<2, 0, 0>>, <<1, 1, 1>>, <<0, 0, 2>> >> >>
\* Lattice units per world unit of an input.
Scales == {1, FineScale}
\* The members of a set of list positions in ascending order, as a sequence.
Picked(list, picks) ==
    [n \in 1 .. Cardinality(picks) |->
        list[CHOOSE p \in picks : Cardinality({q \in picks : q < p}) = n - 1]]
InputsOf(list) ==
    {ArrayOf(Picked(list, picks)) :
        picks \in {s \in SUBSET (1 .. Min2(NumCandidates, Len(list))) :
                      s # {} /\ Cardinality(s) <= MaxPoints}}
Inputs == UNION {InputsOf(CandidateLists[l]) : l \in DOMAIN CandidateLists}

(***************************************************************************)
(* State.                                                                  *)
(***************************************************************************)
VARIABLES
    pc,                     \* position inside Define / BuildTetrahedrons
    scale,                  \* lattice units per world unit of the input
    positions,              \* the argument of Define
    vertices_,              \* TetrahedralMesh::vertices_
    tetrahedrons_,          \* TetrahedralMesh::tetrahedrons_
    hullNormals_,           \* TetrahedralMesh::hullNormals_
    matrix_,                \* Tetrahedron::matrix_ of every tetrahedron, once computed
    numInnerTetrahedrons_,  \* TetrahedralMesh::numInnerTetrahedrons_
    ignoredVertices_,       \* TetrahedralMesh::ignoredVertices_
    debugHighlightEdges_,   \* TetrahedralMesh::debugHighlightEdges_
    circumspheres_,         \* DelaunayContext::circumspheres_
    removed_,               \* DelaunayContext::removed_
    verticesQueue,          \* local of BuildTetrahedrons
    postponedVertices,      \* local of BuildTetrahedrons
    queuePos,               \* position of the range-for over verticesQueue
    hullSurface,            \* local of BuildTetrahedrons (faces_)
    lastAttempt,            \* what the latest call of FindAndRemoveIntersected did
    history,                \* every insertion attempt of the build so far
    earlierBuild,           \* what the build before this one left, if there was one
    edges,                  \* the vector that the caller hands to CollectEdges
    asserts                 \* assertions of the code that did not hold

vars == <<pc, scale, positions, vertices_, tetrahedrons_, hullNormals_, matrix_, numInnerTetrahedrons_,
          ignoredVertices_, debugHighlightEdges_, circumspheres_, removed_, verticesQueue,
          postponedVertices, queuePos, hullSurface, lastAttempt, history, earlierBuild, edges, asserts>>

meshVars == <<vertices_, tetrahedrons_, hullNormals_, matrix_, numInnerTetrahedrons_, ignoredVertices_>>
ctxVars == <<circumspheres_, removed_>>
loopVars == <<verticesQueue, postponedVertices, queuePos>>

NoAttempt == [pass |-> 0, vertex |-> M_MAX_UNSIGNED, outcome |-> "none", numRemoved |-> 0, numHoleFaces |-> 0]

\* What a build leaves in the mesh; NoBuild stands for no build so far.
NoBuild ==
    [built |-> FALSE, vertices_ |-> EmptyArray, tetrahedrons_ |-> EmptyArray, hullNormals_ |-> EmptyArray,
     numInnerTetrahedrons_ |-> 0, ignoredVertices_ |-> EmptyArray]
LeftByBuild ==
    [built |-> TRUE, vertices_ |-> vertices_, tetrahedrons_ |-> tetrahedrons_, hullNormals_ |-> hullNormals_,
     numInnerTetrahedrons_ |-> numInnerTetrahedrons_, ignoredVertices_ |-> ignoredVertices_]

\* A default-constructed TetrahedralMesh.
Init ==
    /\ pc = "idle"
    /\ scale = 1
    /\ positions = EmptyArray
    /\ vertices_ = EmptyArray
    /\ tetrahedrons_ = EmptyArray
    /\ hullNormals_ = EmptyArray
    /\ matrix_ = EmptyArray
    /\ numInnerTetrahedrons_ = 0
    /\ ignoredVertices_ = EmptyArray
    /\ debugHighlightEdges_ = EmptyArray
    /\ circumspheres_ = EmptyArray
    /\ removed_ = EmptyArray
    /\ verticesQueue = EmptyArray
    /\ postponedVertices = EmptyArray
    /\ queuePos = 0
    /\ hullSurface = EmptyArray
    /\ lastAttempt = NoAttempt
    /\ history = EmptyArray
    /\ earlierBuild = NoBuild
    /\ edges = EmptyArray
    /\ asserts = {}

(***************************************************************************)
(* Define: bounding box, InitializeSuperMesh, and BuildTetrahedrons up to  *)
(* the triangulation loop.                                                 *)
(***************************************************************************)
MinCoord(pts, c) == CHOOSE m \in {pts[i][c] : i \in DOMAIN pts} : \A i \in DOMAIN pts : m <= pts[i][c]
MaxCoord(pts, c) == CHOOSE m \in {pts[i][c] : i \in DOMAIN pts} : \A i \in DOMAIN pts : m >= pts[i][c]
\* BoundingBox(positions) grown by Vector3::ONE, which is k lattice units.
PaddedBoundingBox(pts, k) ==
    [min_ |-> <<MinCoord(pts, 1) - k, MinCoord(pts, 2) - k, MinCoord(pts, 3) - k>>,
     max_ |-> <<MaxCoord(pts, 1) + k, MaxCoord(pts, 2) + k, MaxCoord(pts, 3) + k>>]

SuperMeshOffsets ==
    ArrayOf(<< <<0, 0, 0>>, <<1, 0, 0>>, <<0, 1, 0>>, <<1, 1, 0>>,
               <<0, 0, 1>>, <<1, 0, 1>>, <<0, 1, 1>>, <<1, 1, 1>> >>)
SuperMeshIndices ==
    ArrayOf(<< Arr4(0, 1, 2, 4), Arr4(3, 1, 2, 7), Arr4(5, 1, 4, 7), Arr4(6, 2, 4, 7), Arr4(1, 2, 4, 7) >>)
\* A table that lists the neighbours of the central tetrahedron in the order
\* of the corner tetrahedrons.
SuperMeshNeighborsInOrder ==
    ArrayOf(<< Arr4(4, M_MAX_UNSIGNED, M_MAX_UNSIGNED, M_MAX_UNSIGNED),
               Arr4(4, M_MAX_UNSIGNED, M_MAX_UNSIGNED, M_MAX_UNSIGNED),
               Arr4(4, M_MAX_UNSIGNED, M_MAX_UNSIGNED, M_MAX_UNSIGNED),
               Arr4(4, M_MAX_UNSIGNED, M_MAX_UNSIGNED, M_MAX_UNSIGNED),
               Arr4(0, 1, 2, 3) >>)

SuperMeshNeighbors ==
    ArrayOf(<< Arr4(4, M_MAX_UNSIGNED, M_MAX_UNSIGNED, M_MAX_UNSIGNED),
               Arr4(4, M_MAX_UNSIGNED, M_MAX_UNSIGNED, M_MAX_UNSIGNED),
               Arr4(4, M_MAX_UNSIGNED, M_MAX_UNSIGNED, M_MAX_UNSIGNED),
               Arr4(4, M_MAX_UNSIGNED, M_MAX_UNSIGNED, M_MAX_UNSIGNED),
               Arr4(3, 2, 1, 0) >>)

\* TetrahedralMesh::InitializeSuperMesh: [vertices_, tetrahedrons_].
InitializeSuperMesh(boundingBox) ==
    LET size == Sub(boundingBox.max_, boundingBox.min_)
    IN  [vertices_ |->
             MakeArray(NumSuperMeshVertices, LAMBDA i :
                 <<boundingBox.min_[1] + size[1] * SuperMeshOffsets[i][1],
                   boundingBox.min_[2] + size[2] * SuperMeshOffsets[i][2],
                   boundingBox.min_[3] + size[3] * SuperMeshOffsets[i][3]>>),
         tetrahedrons_ |->
             MakeArray(Size(SuperMeshIndices), LAMBDA i :
                 [indices_ |-> SuperMeshIndices[i], neighbors_ |-> SuperMeshNeighbors[i]])]

\* vertices_.insert(vertices_.end(), positions.begin(), positions.end()).
AppendAll(verts, pts) ==
    MakeArray(Size(verts) + Size(pts), LAMBDA i : IF i < Size(verts) THEN verts[i] ELSE pts[i - Size(verts)])

\* Define up to the first pass of the triangulation loop: the mesh, the
\* context and the queue.
StartBuild(pts, k) ==
    LET mesh == InitializeSuperMesh(PaddedBoundingBox(pts, k))
        startVertex == Size(mesh.vertices_)
    IN  [vertices_ |-> AppendAll(mesh.vertices_, pts),
         tetrahedrons_ |-> mesh.tetrahedrons_,
         circumspheres_ |-> MakeArray(Size(mesh.tetrahedrons_), LAMBDA i :
                                GetTetrahedronCircumsphere(mesh.vertices_, mesh.tetrahedrons_[i])),
         removed_ |-> MakeArray(Size(mesh.tetrahedrons_), LAMBDA i : FALSE),
         verticesQueue |-> MakeArray(Size(pts), LAMBDA i : startVertex + i)]

\* TetrahedralMesh::Define, up to the first pass of the triangulation loop.
\* It is called on a default-constructed mesh, or once more with the same
\* positions on a mesh that it has built.  InitializeSuperMesh resizes and
\* overwrites vertices_ and tetrahedrons_ (the tetrahedrons with their
\* matrices are replaced by new ones) and BuildTetrahedrons makes a new
\* context, queue and hull surface; hullNormals_, numInnerTetrahedrons_,
\* ignoredVertices_ and debugHighlightEdges_ are left as they are.  The
\* caller holds no edges of the mesh that existed before.
Define(pts, k) ==
    /\ \/ pc = "idle"
       \/ pc = "done" /\ pts = positions /\ k = scale
    /\ \E m \in {StartBuild(pts, k)} :
           /\ vertices_' = m.vertices_
           /\ tetrahedrons_' = m.tetrahedrons_
           /\ circumspheres_' = m.circumspheres_
           /\ removed_' = m.removed_
           /\ verticesQueue' = m.verticesQueue
    /\ positions' = pts
    /\ scale' = k
    /\ matrix_' = EmptyArray
    /\ hullSurface' = EmptyArray
    /\ postponedVertices' = EmptyArray
    /\ queuePos' = 0
    /\ lastAttempt' = NoAttempt
    /\ history' = EmptyArray
    /\ earlierBuild' = IF pc = "done" THEN LeftByBuild ELSE earlierBuild
    /\ edges' = EmptyArray
    /\ pc' = "triangulate"
    /\ UNCHANGED <<hullNormals_, numInnerTetrahedrons_, ignoredVertices_, debugHighlightEdges_, asserts>>

(***************************************************************************)
(* The triangulation loop of BuildTetrahedrons.                            *)
(***************************************************************************)
CurrentPass == IF Size(history) = 0 THEN 1 ELSE history[Size(history) - 1].pass

\* One iteration of the range-for over verticesQueue.
InsertVertex ==
    /\ pc = "triangulate"
    /\ queuePos < Size(verticesQueue)
    /\ \E newVertexIndex \in {verticesQueue[queuePos]} :
       \E m \in {InsertOne(tetrahedrons_, vertices_, circumspheres_, removed_, newVertexIndex, scale)} :
       \E attempt \in {[pass |-> IF queuePos = 0 /\ Size(history) > 0 THEN CurrentPass + 1 ELSE CurrentPass,
                        vertex |-> newVertexIndex, outcome |-> m.found.outcome,
                        numRemoved |-> Size(m.found.removedTetrahedrons),
                        numHoleFaces |-> Size(m.found.holeSurface)]} :
           /\ lastAttempt' = attempt
           /\ history' = PushBack(history, attempt)
           /\ postponedVertices' = IF m.found.ok THEN postponedVertices
                                   ELSE PushBack(postponedVertices, newVertexIndex)
           /\ tetrahedrons_' = m.tetrahedrons_
           /\ circumspheres_' = m.circumspheres_
           /\ removed_' = m.removed_
           /\ asserts' = asserts \cup (IF m.assertFailed THEN {"FillStarShapedHole"} ELSE {})
    /\ queuePos' = queuePos + 1
    /\ UNCHANGED <<pc, scale, positions, vertices_, hullNormals_, matrix_, numInnerTetrahedrons_,
                   ignoredVertices_, debugHighlightEdges_, verticesQueue, hullSurface, earlierBuild, edges>>

\* An end of pass that leaves the loop only when nothing is postponed.
EndPassWithoutProgressTest ==
    /\ pc = "triangulate"
    /\ queuePos = Size(verticesQueue)
    /\ verticesQueue' = postponedVertices
    /\ IF Size(postponedVertices) = 0
       THEN /\ pc' = "dump"
            /\ postponedVertices' = verticesQueue
       ELSE /\ pc' = "triangulate"
            /\ postponedVertices' = EmptyArray
    /\ queuePos' = 0
    /\ UNCHANGED <<scale, positions, meshVars, ctxVars, debugHighlightEdges_, hullSurface,
                   lastAttempt, history, earlierBuild, edges, asserts>>

\* An end of pass that does not swap: the next pass runs over the old queue.
EndPassWithoutSwap ==
    /\ pc = "triangulate"
    /\ queuePos = Size(verticesQueue)
    /\ verticesQueue' = verticesQueue
    /\ IF Size(verticesQueue) = Size(postponedVertices) \/ Size(postponedVertices) = 0
       THEN /\ pc' = "dump"
            /\ postponedVertices' = postponedVertices
       ELSE /\ pc' = "triangulate"
            /\ postponedVertices' = EmptyArray
    /\ queuePos' = 0
    /\ UNCHANGED <<scale, positions, meshVars, ctxVars, debugHighlightEdges_, hullSurface,
                   lastAttempt, history, earlierBuild, edges, asserts>>

\* The end of one pass: re-enqueue the postponed vertices, leave the loop when
\* all of them were postponed again or none is left, else start the next pass.
EndPass ==
    /\ pc = "triangulate"
    /\ queuePos = Size(verticesQueue)
    /\ verticesQueue' = postponedVertices
    /\ IF Size(verticesQueue) = Size(postponedVertices) \/ Size(postponedVertices) = 0
       THEN /\ pc' = "dump"
            /\ postponedVertices' = verticesQueue
       ELSE /\ pc' = "triangulate"
            /\ postponedVertices' = EmptyArray
    /\ queuePos' = 0
    /\ UNCHANGED <<scale, positions, meshVars, ctxVars, debugHighlightEdges_, hullSurface,
                   lastAttempt, history, earlierBuild, edges, asserts>>

\* Dump failed attempts for debugging: the body of the loop, one call per
\* ignored vertex, each with the position of verticesQueue[0].
\* m = [removed_, edges, assertFailed].
DumpFailedAttempt(tets, verts, spheres, queue, k, m, i) ==
    LET found == FindAndRemoveIntersected(tets, verts, spheres, m.removed_, verts[queue[0]], k, TRUE)
    IN  [removed_ |-> found.removed_,
         edges |-> AppendAll(m.edges, found.highlight),
         assertFailed |-> m.assertFailed \/ found.outcome = "dumpValid"]

DumpFailedAttempts(tets, verts, spheres, removed, queue, k) ==
    ForLoop(LAMBDA m, i : DumpFailedAttempt(tets, verts, spheres, queue, k, m, i),
            NoBreak, [removed_ |-> removed, edges |-> EmptyArray, assertFailed |-> FALSE],
            0, Size(queue))

DumpFailed ==
    /\ pc = "dump"
    /\ \E dumped \in {DumpFailedAttempts(tetrahedrons_, vertices_, circumspheres_, removed_,
                                         verticesQueue, scale)} :
           /\ removed_' = dumped.removed_
           /\ debugHighlightEdges_' = dumped.edges
           /\ asserts' = asserts \cup (IF dumped.assertFailed THEN {"DumpErrorsValid"} ELSE {})
    /\ pc' = "disconnectSuperMesh"
    /\ UNCHANGED <<scale, positions, meshVars, circumspheres_, loopVars, hullSurface, lastAttempt, history, earlierBuild, edges>>

(***************************************************************************)
(* Finalize triangulation, build the outer space.                          *)
(***************************************************************************)
DisconnectSuperMesh ==
    /\ pc = "disconnectSuperMesh"
    /\ \E m \in {DisconnectSuperMeshTetrahedrons(tetrahedrons_, removed_)} :
           /\ tetrahedrons_' = m.tetrahedrons_
           /\ removed_' = m.removed_
           /\ asserts' = asserts \cup (IF m.assertFailed THEN {"DisconnectSuperMeshTetrahedrons"} ELSE {})
    /\ pc' = "removeMarked"
    /\ UNCHANGED <<scale, positions, vertices_, hullNormals_, matrix_, numInnerTetrahedrons_, ignoredVertices_,
                   debugHighlightEdges_, circumspheres_, loopVars, hullSurface, lastAttempt, history, earlierBuild, edges>>

RemoveMarked ==
    /\ pc = "removeMarked"
    /\ \E m \in {RemoveMarkedTetrahedrons(tetrahedrons_, removed_)} :
           /\ tetrahedrons_' = m.tetrahedrons_
           /\ asserts' = asserts \cup (IF m.assertFailed THEN {"RemoveMarkedTetrahedrons"} ELSE {})
    /\ pc' = "removeSuperMeshVertices"
    /\ UNCHANGED <<scale, positions, vertices_, hullNormals_, matrix_, numInnerTetrahedrons_, ignoredVertices_,
                   debugHighlightEdges_, ctxVars, loopVars, hullSurface, lastAttempt, history, earlierBuild, edges>>

RemoveSuperVertices ==
    /\ pc = "removeSuperMeshVertices"
    /\ \E m \in {RemoveSuperMeshVertices(vertices_, tetrahedrons_, debugHighlightEdges_)} :
           /\ vertices_' = m.vertices_
           /\ tetrahedrons_' = m.tetrahedrons_
           /\ debugHighlightEdges_' = m.debugHighlightEdges_
    /\ pc' = "updateIgnored"
    /\ UNCHANGED <<scale, positions, hullNormals_, matrix_, numInnerTetrahedrons_, ignoredVertices_,
                   ctxVars, loopVars, hullSurface, lastAttempt, history, earlierBuild, edges, asserts>>

\* UpdateIgnoredVertices and the assertion that follows it.
UpdateIgnored ==
    /\ pc = "updateIgnored"
    /\ ignoredVertices_' = UpdateIgnoredVertices(vertices_, tetrahedrons_)
    /\ asserts' = asserts \cup (IF IsAdjacencyValid(tetrahedrons_, FALSE) THEN {} ELSE {"IsAdjacencyValid"})
    /\ pc' = "buildHull"
    /\ UNCHANGED <<scale, positions, vertices_, tetrahedrons_, hullNormals_, matrix_, numInnerTetrahedrons_,
                   debugHighlightEdges_, ctxVars, loopVars, hullSurface, lastAttempt, history, earlierBuild, edges>>

BuildHull ==
    /\ pc = "buildHull"
    /\ \E m \in {BuildHullSurface(tetrahedrons_, vertices_)} :
           /\ hullSurface' = m.faces_
           /\ asserts' = asserts \cup (IF m.assertFailed THEN {"BuildHullSurface"} ELSE {})
    /\ pc' = "calculateHullNormals"
    /\ UNCHANGED <<scale, positions, meshVars, debugHighlightEdges_, ctxVars, loopVars, lastAttempt, history, earlierBuild, edges>>

CalculateNormals ==
    /\ pc = "calculateHullNormals"
    /\ hullNormals_' = CalculateHullNormals(vertices_, hullSurface, hullNormals_)
    /\ pc' = "buildOuter"
    /\ UNCHANGED <<scale, positions, vertices_, tetrahedrons_, matrix_, numInnerTetrahedrons_, ignoredVertices_,
                   debugHighlightEdges_, ctxVars, loopVars, hullSurface, lastAttempt, history, earlierBuild, edges, asserts>>

BuildOuter ==
    /\ pc = "buildOuter"
    /\ \E m \in {BuildOuterTetrahedrons(tetrahedrons_, hullSurface)} :
           /\ tetrahedrons_' = m.tetrahedrons_
           /\ numInnerTetrahedrons_' = m.numInnerTetrahedrons_
           /\ asserts' = asserts \cup (IF m.assertFailed THEN {"BuildOuterTetrahedrons"} ELSE {})
    /\ pc' = "calculateMatrices"
    /\ UNCHANGED <<scale, positions, vertices_, hullNormals_, matrix_, ignoredVertices_, debugHighlightEdges_,
                   ctxVars, loopVars, hullSurface, lastAttempt, history, earlierBuild, edges>>

\* CalculateInnerMatrices and CalculateOuterMatrices, the end of Define.
CalculateMatrices ==
    /\ pc = "calculateMatrices"
    /\ \E m \in {CalculateOuterMatrices(
                      [tetrahedrons_ |-> tetrahedrons_,
                       matrix_ |-> CalculateInnerMatrices(vertices_, tetrahedrons_, numInnerTetrahedrons_)],
                      hullNormals_, numInnerTetrahedrons_)} :
           /\ tetrahedrons_' = m.tetrahedrons_
           /\ matrix_' = m.matrix_
    /\ pc' = "done"
    /\ UNCHANGED <<scale, positions, vertices_, hullNormals_, numInnerTetrahedrons_, ignoredVertices_,
                   debugHighlightEdges_, ctxVars, loopVars, hullSurface, lastAttempt, history, earlierBuild, edges, asserts>>

\* A call of CollectEdges on the mesh that Define has built.
CallCollectEdges ==
    /\ pc = "done"
    /\ edges' = CollectEdges(tetrahedrons_, numInnerTetrahedrons_)
    /\ UNCHANGED <<pc, scale, positions, meshVars, debugHighlightEdges_, ctxVars, loopVars, hullSurface,
                   lastAttempt, history, earlierBuild, asserts>>

Next ==
    \/ \E pts \in Inputs, k \in Scales : Define(pts, k)
    \/ InsertVertex
    \/ EndPass
    \/ DumpFailed
    \/ DisconnectSuperMesh
    \/ RemoveMarked
    \/ RemoveSuperVertices
    \/ UpdateIgnored
    \/ BuildHull
    \/ CalculateNormals
    \/ BuildOuter
    \/ CalculateMatrices
    \/ CallCollectEdges

Spec == Init /\ [][Next]_vars

\* Define is one synchronous call that runs until it returns: as long as it
\* has not returned, the next statement is executed.  Every step of Next
\* moves the position inside Define or inside the queue, and a step is
\* possible at every position but the last, so the fairness is stated for
\* that move.
Positions ==
    {"idle", "triangulate", "dump", "disconnectSuperMesh", "removeMarked", "removeSuperMeshVertices",
     "updateIgnored", "buildHull", "calculateHullNormals", "buildOuter", "calculateMatrices", "done"}
Advance ==
    /\ pc # "done"
    /\ \E p \in Positions, q \in 0 .. MaxPoints :
           /\ <<p, q>> # <<pc, queuePos>>
           /\ pc' = p
           /\ queuePos' = q
FairSpec == Spec /\ WF_<<pc, queuePos>>(Advance)

(***************************************************************************)
(* Properties.                                                             *)
(***************************************************************************)
NumInputs == Size(positions)
FaceVertices(tet, faceIndex) == {tet.indices_[j] : j \in (0 .. 3) \ {faceIndex}}
\* The link of tetrahedron t across face i is answered by the neighbour
\* across the face that has the same three vertices.
LinkIsSymmetric(tets, t, i) ==
    LET n == tets[t].neighbors_[i]
    IN  \/ n = M_MAX_UNSIGNED
        \/ /\ n \in DOMAIN tets
           /\ \E j \in 0 .. 3 : /\ tets[n].neighbors_[j] = t
                                /\ FaceVertices(tets[n], j) = FaceVertices(tets[t], i)
SymmetricAdjacency(tets) ==
    \A t \in DOMAIN tets : \A i \in 0 .. 3 : LinkIsSymmetric(tets, t, i)
\* The mesh is between two steps of the build that keep it consistent: after
\* the super mesh is set up, after every attempt to insert a vertex, after
\* the marked tetrahedrons are taken out, after the outer shell is attached.
StableState ==
    pc \in {"triangulate", "dump", "disconnectSuperMesh", "removeSuperMeshVertices",
            "updateIgnored", "buildHull", "calculateHullNormals", "buildOuter", "calculateMatrices",
            "done"}

\* C1: at every stable state of the mesh the adjacency is symmetric: a
\* tetrahedron T with neighbour N across face i is a neighbour of N across
\* the face of N that has the three vertices of T's face i.
C1_AdjacencySymmetric == StableState => SymmetricAdjacency(tetrahedrons_)

\* C2: Define runs to completion: a pass of the retry loop either leaves the
\* loop or starts the next pass with strictly fewer queued vertices, and a
\* build that was started reaches its end.
C2_DefineTerminates ==
    /\ [][(pc = "triangulate" /\ queuePos = Size(verticesQueue))
              => (pc' = "dump" \/ Size(verticesQueue') < Size(verticesQueue))]_vars
    /\ (pc = "triangulate") ~> (pc = "done")
\* A build that needed more than one pass has finished.
C2_Witness == pc = "done" /\ lastAttempt.pass >= 2

InnerCorners ==
    {tetrahedrons_[t].indices_[j] : t \in 0 .. numInnerTetrahedrons_ - 1, j \in 0 .. 3}
\* C3: after Define every input index is a corner of some inner tetrahedron
\* or is listed in ignoredVertices_, never both; the list holds only input
\* indices, each at most once.
C3_NoVertexLost ==
    pc = "done" =>
        /\ \A i \in 0 .. NumInputs - 1 : (i \in InnerCorners) # (i \in Range(ignoredVertices_))
        /\ Range(ignoredVertices_) \subseteq 0 .. NumInputs - 1
        /\ Cardinality(Range(ignoredVertices_)) = Size(ignoredVertices_)
\* A finished build that uses some input vertices and ignores others.
C3_Witness ==
    /\ pc = "done"
    /\ Size(ignoredVertices_) > 0
    /\ numInnerTetrahedrons_ > 0

\* C4: an attempt that fails the orientation check is rolled back: the
\* removed flags are what they were before the attempt, no removed
\* tetrahedron and no hole face is handed back, tetrahedrons and circumspheres
\* are untouched (and so not grown), and the vertex is postponed.
C4_OrientationFailureRollsBack ==
    [][(queuePos' = queuePos + 1 /\ lastAttempt'.outcome = "orientation")
           => /\ removed_' = removed_
              /\ lastAttempt'.numRemoved = 0
              /\ lastAttempt'.numHoleFaces = 0
              /\ tetrahedrons_' = tetrahedrons_
              /\ circumspheres_' = circumspheres_
              /\ postponedVertices' = PushBack(postponedVertices, verticesQueue[queuePos])
              /\ verticesQueue' = verticesQueue
              /\ pc' = "triangulate"]_vars
\* The latest attempt failed the orientation check.
C4_Witness == pc = "triangulate" /\ lastAttempt.outcome = "orientation"

\* The faces of the tetrahedrons that have no neighbour, and how many of them
\* hold a given edge.
HullFaces(tets) == {f \in (DOMAIN tets) \X (0 .. 3) : tets[f[1]].neighbors_[f[2]] = M_MAX_UNSIGNED}
EdgesOf(tets, f) == {e \in SUBSET FaceVertices(tets[f[1]], f[2]) : Cardinality(e) = 2}
NumHullFacesAt(tets, e) == Cardinality({f \in HullFaces(tets) : e \subseteq FaceVertices(tets[f[1]], f[2])})
EveryHullEdgeSharedByTwo(tets) ==
    \A f \in HullFaces(tets) : \A e \in EdgesOf(tets, f) : NumHullFacesAt(tets, e) = 2

\* C9: the hull surface, made of every face of an inner tetrahedron that has
\* no neighbour once the super mesh is removed, is closed: every edge of a
\* hull face is shared by exactly two hull faces, and the assertion of
\* BuildHullSurface holds.
C9_HullClosed ==
    pc = "buildOuter" =>
        /\ EveryHullEdgeSharedByTwo(tetrahedrons_)
        /\ IsClosedSurface(hullSurface)
        /\ "BuildHullSurface" \notin asserts

\* C5: an attempt whose hole surface cannot be assembled (AddFace fails or
\* the surface is not closed) leaves the removed flags and the mesh as they
\* were before the attempt, and the vertex is postponed.
C5_AssemblyFailureRollsBack ==
    [][(queuePos' = queuePos + 1 /\ lastAttempt'.outcome \in {"addFace", "notClosed"})
           => /\ removed_' = removed_
              /\ tetrahedrons_' = tetrahedrons_
              /\ circumspheres_' = circumspheres_
              /\ postponedVertices' = PushBack(postponedVertices, verticesQueue[queuePos])]_vars
\* The latest attempt could not assemble its hole surface.
C5_Reached == lastAttempt.outcome \in {"addFace", "notClosed"}

\* C6: an attempt that finds no tetrahedron to start from changes no removed
\* flag and no tetrahedron, and the vertex is postponed.
C6_NoSeedChangesNothing ==
    [][(queuePos' = queuePos + 1 /\ lastAttempt'.outcome = "noSeed")
           => /\ removed_' = removed_
              /\ tetrahedrons_' = tetrahedrons_
              /\ circumspheres_' = circumspheres_
              /\ postponedVertices' = PushBack(postponedVertices, verticesQueue[queuePos])
              /\ pc' = "triangulate"]_vars
\* The latest attempt found no tetrahedron to start from.
C6_Reached == lastAttempt.outcome = "noSeed"

Failed(attempt) == attempt.outcome # "ok"
AttemptsOfPass(p) == {i \in DOMAIN history : history[i].pass = p}
\* Attempts come pass after pass; inside a pass the vertices keep the order
\* in which they were supplied; an inserted vertex is not attempted again.
AttemptsInOrder ==
    \A i, j \in DOMAIN history :
        i < j => /\ history[i].pass <= history[j].pass
                 /\ history[i].pass = history[j].pass => history[i].vertex < history[j].vertex
                 /\ ~Failed(history[i]) => history[j].vertex # history[i].vertex
\* The first pass attempts the input vertices one after the other.
FirstPassAsSupplied ==
    /\ \A i \in AttemptsOfPass(1) : history[i].vertex = NumSuperMeshVertices + i
    /\ (pc \notin {"idle", "triangulate"} \/ lastAttempt.pass > 1)
           => Cardinality(AttemptsOfPass(1)) = NumInputs
\* A later pass attempts exactly the vertices that failed in the pass before
\* it, in their order.
RetriedInNextPass ==
    /\ \A j \in DOMAIN history :
           history[j].pass > 1 =>
               \E i \in AttemptsOfPass(history[j].pass - 1) :
                   history[i].vertex = history[j].vertex /\ Failed(history[i])
    /\ \A i \in DOMAIN history :
           (/\ Failed(history[i])
            /\ \/ lastAttempt.pass > history[i].pass + 1
               \/ lastAttempt.pass > history[i].pass /\ pc # "triangulate"
               \/ \E j \in AttemptsOfPass(history[i].pass + 1) : history[j].vertex > history[i].vertex)
               => \E j \in AttemptsOfPass(history[i].pass + 1) : history[j].vertex = history[i].vertex
\* Once the loop is left, the queue holds the vertices that are dropped: the
\* ones that failed in the last pass, and if there are any, no vertex of that
\* pass was inserted.
DroppedAfterPassWithoutProgress ==
    pc \notin {"idle", "triangulate"} =>
        /\ Range(verticesQueue) =
               {history[i].vertex : i \in {k \in AttemptsOfPass(lastAttempt.pass) : Failed(history[k])}}
        /\ Size(verticesQueue) > 0 => \A i \in AttemptsOfPass(lastAttempt.pass) : Failed(history[i])

\* C7: vertices are attempted in the order supplied; a vertex that fails in
\* one pass is retried in the next, in the same relative order; an inserted
\* vertex is never attempted again; vertices are dropped only after a pass in
\* which every queued vertex failed; and a build that drops vertices still
\* runs through cleanup and hull construction to its end.
C7_RetryPolicy ==
    /\ [](AttemptsInOrder /\ FirstPassAsSupplied /\ RetriedInNextPass /\ DroppedAfterPassWithoutProgress)
    /\ (pc = "dump" /\ Size(verticesQueue) > 0) ~> (pc = "done")
\* A finished build that retried vertices over three passes and dropped some.
C7_Witness ==
    /\ pc = "done"
    /\ Size(verticesQueue) > 0
    /\ lastAttempt.pass >= 3
    /\ \E i \in DOMAIN history : history[i].pass = 2 /\ ~Failed(history[i])

OuterTetrahedrons == numInnerTetrahedrons_ .. Size(tetrahedrons_) - 1
InnerTetrahedrons == 0 .. numInnerTetrahedrons_ - 1
\* The faces of inner tetrahedrons that no inner tetrahedron is behind.
InnerHullFaces ==
    {f \in InnerTetrahedrons \X (0 .. 3) : tetrahedrons_[f[1]].neighbors_[f[2]] \notin InnerTetrahedrons}
\* C8: after the outer shell is built there is exactly one outer tetrahedron
\* per hull face; its first three corners are the vertices of the hull face,
\* its neighbour across face 3 is the inner tetrahedron that owns the hull
\* face, which points back at it across that face, its other neighbours are
\* outer tetrahedrons; no tetrahedron has a missing neighbour and the
\* adjacency is symmetric.
C8_OuterShell ==
    pc = "done" =>
        /\ Cardinality(OuterTetrahedrons) = Cardinality(InnerHullFaces)
        /\ \A o \in OuterTetrahedrons :
               LET tet == tetrahedrons_[o]
                   owner == tet.neighbors_[3]
               IN  /\ owner \in InnerTetrahedrons
                   /\ \E f \in 0 .. 3 :
                          /\ tetrahedrons_[owner].neighbors_[f] = o
                          /\ FaceVertices(tetrahedrons_[owner], f) = FaceVertices(tet, 3)
                   /\ \A j \in 0 .. 2 : tet.neighbors_[j] \in OuterTetrahedrons
        /\ \A f \in InnerHullFaces :
               LET o == tetrahedrons_[f[1]].neighbors_[f[2]]
               IN  /\ o \in OuterTetrahedrons
                   /\ tetrahedrons_[o].neighbors_[3] = f[1]
                   /\ FaceVertices(tetrahedrons_[o], 3) = FaceVertices(tetrahedrons_[f[1]], f[2])
        /\ \A t \in DOMAIN tetrahedrons_ : \A i \in 0 .. 3 : tetrahedrons_[t].neighbors_[i] # M_MAX_UNSIGNED
        /\ SymmetricAdjacency(tetrahedrons_)

SuperMeshVertex(k) == InitializeSuperMesh(PaddedBoundingBox(positions, scale)).vertices_[k]
CleanedUp ==
    pc \in {"updateIgnored", "buildHull", "calculateHullNormals", "buildOuter", "calculateMatrices", "done"}
SurvivingInner == IF pc \in {"calculateMatrices", "done"} THEN InnerTetrahedrons ELSE DOMAIN tetrahedrons_
\* C10: after cleanup no surviving tetrahedron has a super-mesh vertex; the
\* step that disconnects the super-mesh tetrahedrons clears, in every
\* tetrahedron that stays, exactly the neighbour slots that pointed at a
\* removed one; the super-mesh vertices are rotated to the tail of vertices_,
\* input i is vertex i, and every index of a surviving inner tetrahedron is
\* below the number of inputs.
C10_SuperMeshRemoved ==
    /\ [](pc = "removeSuperMeshVertices" =>
              \A t \in DOMAIN tetrahedrons_ : \A j \in 0 .. 3 :
                  tetrahedrons_[t].indices_[j] >= NumSuperMeshVertices)
    /\ [][pc = "disconnectSuperMesh" =>
              \A n \in DOMAIN tetrahedrons_ : \A j \in 0 .. 3 :
                  LET t == tetrahedrons_[n].neighbors_[j]
                  IN  ~removed_'[n] =>
                          tetrahedrons_'[n].neighbors_[j] =
                              IF t # M_MAX_UNSIGNED /\ removed_'[t] THEN M_MAX_UNSIGNED ELSE t]_vars
    /\ [](CleanedUp =>
              /\ Size(vertices_) = NumInputs + NumSuperMeshVertices
              /\ \A i \in 0 .. NumInputs - 1 : vertices_[i] = positions[i]
              /\ \A k \in 0 .. NumSuperMeshVertices - 1 : vertices_[NumInputs + k] = SuperMeshVertex(k)
              /\ \A t \in SurvivingInner : \A j \in 0 .. 3 :
                     tetrahedrons_[t].indices_[j] \in 0 .. NumInputs - 1)
\* Cleanup took tetrahedrons away and left some, one of them at the hull.
C10_Witness ==
    /\ pc = "updateIgnored"
    /\ Size(tetrahedrons_) > 0
    /\ Size(tetrahedrons_) < Size(removed_)
    /\ \E t \in DOMAIN tetrahedrons_ : \E j \in 0 .. 3 : tetrahedrons_[t].neighbors_[j] = M_MAX_UNSIGNED

\* The survivors of a compaction: the tetrahedrons that are not marked, and
\* the place a survivor moves to.
Survivors == {t \in DOMAIN tetrahedrons_ : ~removed_[t]}
PlaceAfterCompaction(t) == Cardinality({u \in Survivors : u < t})
\* C11: compaction never meets a surviving tetrahedron with a neighbour slot
\* that refers to a removed one (its assertion holds); the survivors keep
\* their relative order, and the new adjacency is the old one of the
\* survivors under the map from old to new indices.
C11_CompactionKeepsAdjacency ==
    [][pc = "removeMarked" =>
           /\ "RemoveMarkedTetrahedrons" \notin asserts'
           /\ Size(tetrahedrons_') = Cardinality(Survivors)
           /\ \A t \in Survivors :
                  /\ tetrahedrons_'[PlaceAfterCompaction(t)].indices_ = tetrahedrons_[t].indices_
                  /\ \A j \in 0 .. 3 :
                         LET n == tetrahedrons_[t].neighbors_[j]
                         IN  IF n = M_MAX_UNSIGNED
                             THEN tetrahedrons_'[PlaceAfterCompaction(t)].neighbors_[j] = M_MAX_UNSIGNED
                             ELSE /\ n \in Survivors
                                  /\ tetrahedrons_'[PlaceAfterCompaction(t)].neighbors_[j] =
                                         PlaceAfterCompaction(n)]_vars
\* A compaction has taken out tetrahedrons in front of survivors that are
\* linked to each other.
C11_Witness ==
    /\ pc = "removeSuperMeshVertices"
    /\ Size(tetrahedrons_) > 1
    /\ Size(tetrahedrons_) < Size(removed_)
    /\ removed_[0]
    /\ \E t \in DOMAIN tetrahedrons_ : \E j \in 0 .. 3 : tetrahedrons_[t].neighbors_[j] # M_MAX_UNSIGNED

\* The side of a circumsphere a position is on: -1 strictly inside, 0 on the
\* sphere, 1 outside (the sign of |position - centre|^2 - radius^2, evaluated
\* in two limbs as in IsInsideCircumsphere).
SphereSide(sphere, position) ==
    IF sphere.degenerate THEN 0 - 1
    ELSE LET q == Sub(position, sphere.p0)
             qq == LengthSquared(q)
             denHi == sphere.radiusDen \div Limb
             denLo == sphere.radiusDen % Limb
             numHi == <<sphere.radiusNum[1] \div Limb, sphere.radiusNum[2] \div Limb, sphere.radiusNum[3] \div Limb>>
             numLo == <<sphere.radiusNum[1] % Limb, sphere.radiusNum[2] % Limb, sphere.radiusNum[3] % Limb>>
             hi == qq * denHi - 2 * DotProduct(q, numHi)
             lo == qq * denLo - 2 * DotProduct(q, numLo)
             hi2 == hi + (lo \div Limb)
             lo2 == lo % Limb
         IN  IF hi2 < 0 THEN 0 - 1 ELSE IF hi2 = 0 /\ lo2 = 0 THEN 0 ELSE 1
CornersOf(t) == {tetrahedrons_[t].indices_[j] : j \in 0 .. 3}
NonExcludedInputs == (0 .. NumInputs - 1) \ Range(ignoredVertices_)
\* C12: after Define no input vertex that is not excluded lies strictly
\* inside the circumsphere of an inner tetrahedron it is not a corner of.
C12_Delaunay ==
    pc = "done" =>
        \A t \in InnerTetrahedrons : \A v \in NonExcludedInputs \ CornersOf(t) :
            SphereSide(GetTetrahedronCircumsphere(vertices_, tetrahedrons_[t]), vertices_[v]) >= 0
\* A finished build with several inner tetrahedrons, one with a used vertex
\* outside its circumsphere and one with a used vertex on its circumsphere
\* that is not its corner.
C12_Witness ==
    /\ pc = "done"
    /\ numInnerTetrahedrons_ >= 3
    /\ \E t \in InnerTetrahedrons : \E v \in NonExcludedInputs \ CornersOf(t) :
           SphereSide(GetTetrahedronCircumsphere(vertices_, tetrahedrons_[t]), vertices_[v]) = 1
    /\ \E t \in InnerTetrahedrons : \E v \in NonExcludedInputs \ CornersOf(t) :
           SphereSide(GetTetrahedronCircumsphere(vertices_, tetrahedrons_[t]), vertices_[v]) = 0

\* The four input positions are not in one plane.
NonCoplanar(pts) ==
    DotProduct(Sub(pts[1], pts[0]), CrossProduct(Sub(pts[2], pts[0]), Sub(pts[3], pts[0]))) # 0
\* C13: Define of exactly four points that are not coplanar yields exactly
\* one inner tetrahedron, whose corners are the four inputs, four outer
\* tetrahedrons, a hull made of the four faces of the inner tetrahedron, and
\* no ignored vertex.
C13_SingleTetrahedron ==
    (pc = "done" /\ NumInputs = 4 /\ NonCoplanar(positions)) =>
        /\ numInnerTetrahedrons_ = 1
        /\ CornersOf(0) = 0 .. 3
        /\ Size(tetrahedrons_) - numInnerTetrahedrons_ = 4
        /\ Size(hullSurface) = 4
        /\ {Range(hullSurface[f].indices_) : f \in DOMAIN hullSurface}
               = {FaceVertices(tetrahedrons_[0], j) : j \in 0 .. 3}
        /\ \A f \in DOMAIN hullSurface : hullSurface[f].tetIndex_ = 0
        /\ ignoredVertices_ = EmptyArray

\* C14: Define of fewer than four points yields no inner tetrahedron and no
\* outer tetrahedron, and every input index is in ignoredVertices_.
C14_TooFewPoints ==
    (pc = "done" /\ NumInputs < 4) =>
        /\ numInnerTetrahedrons_ = 0
        /\ Size(tetrahedrons_) = 0
        /\ ignoredVertices_ = MakeArray(NumInputs, LAMBDA i : i)
\* A finished build of three points, all of them inserted.
C14_Witness ==
    /\ pc = "done"
    /\ NumInputs = 3
    /\ Size(history) = 3
    /\ \A a \in DOMAIN history : history[a].outcome = "ok"
    /\ Size(ignoredVertices_) = 3

\* Attempt a of the build inserts a duplicate: a vertex at the position of
\* another vertex that an earlier attempt inserted.
IsDuplicateAttempt(a) ==
    \E b \in 0 .. a - 1 :
        /\ history[b].outcome = "ok"
        /\ history[b].vertex # history[a].vertex
        /\ positions[history[b].vertex - NumSuperMeshVertices]
               = positions[history[a].vertex - NumSuperMeshVertices]
DuplicateInputs ==
    {history[a].vertex - NumSuperMeshVertices : a \in {d \in DOMAIN history : IsDuplicateAttempt(d)}}
\* C15: the insertion of a duplicate point fails in every pass that attempts
\* it; the duplicate ends in ignoredVertices_ and is a corner of no
\* tetrahedron; the adjacency stays symmetric.
C15_DuplicateRejected ==
    /\ \A a \in DOMAIN history : IsDuplicateAttempt(a) => history[a].outcome # "ok"
    /\ (pc = "triangulate" /\ DuplicateInputs # {}) => SymmetricAdjacency(tetrahedrons_)
    /\ pc = "done" =>
           \A v \in DuplicateInputs :
               /\ v \in Range(ignoredVertices_)
               /\ \A t \in DOMAIN tetrahedrons_ : v \notin CornersOf(t)

\* C17 as stated: once a vertex is appended, its index refers to the same
\* position for the rest of Define, cleanup included.
C17_IndicesStable ==
    [][pc \notin {"idle", "done"} =>
           \A i \in DOMAIN vertices_ : i \in DOMAIN vertices_' /\ vertices_'[i] = vertices_[i]]_vars
\* C17, amended (a step at "done" is the next call of Define, which sets up
\* vertices_ anew): input i is appended at index NumSuperMeshVertices + i and
\* stays there until RemoveSuperMeshVertices, which moves it to index i and
\* the super-mesh vertices behind the inputs; no vertex is dropped, no index
\* is given to two vertices, and every corner of every tetrahedron refers to
\* the same position before and after the move.
C17_IndicesStableUpToCleanup ==
    [][pc \notin {"idle", "done"} =>
           IF pc = "removeSuperMeshVertices"
           THEN /\ Size(vertices_') = Size(vertices_)
                /\ \A i \in 0 .. NumInputs - 1 :
                       /\ vertices_[NumSuperMeshVertices + i] = positions[i]
                       /\ vertices_'[i] = positions[i]
                /\ \A k \in 0 .. NumSuperMeshVertices - 1 : vertices_'[NumInputs + k] = vertices_[k]
                /\ Size(tetrahedrons_') = Size(tetrahedrons_)
                /\ \A t \in DOMAIN tetrahedrons_ : \A j \in 0 .. 3 :
                       vertices_'[tetrahedrons_'[t].indices_[j]] = vertices_[tetrahedrons_[t].indices_[j]]
           ELSE vertices_' = vertices_]_vars
\* The vertices have been moved in a build that keeps several tetrahedrons.
C17_Witness ==
    /\ pc = "updateIgnored"
    /\ NumInputs >= 5
    /\ Size(tetrahedrons_) >= 2
    /\ vertices_[0] = positions[0]
    /\ vertices_[NumSuperMeshVertices] # positions[0]

\* The hull normals at the first three corners of tetrahedron o.
CornerNormal(o, j) == hullNormals_[tetrahedrons_[o].indices_[j]]
\* C18: after Define the fourth index of every outer tetrahedron is Infinity3
\* when the leading coefficient of its cubic is above the epsilon, and its
\* matrix is then scaled, and Infinity2 otherwise, with the matrix left as it
\* is (the product of the squared lengths of the three normals is below
\* 10^6, so a non-zero coefficient is above the epsilon); computing the
\* matrices raises no assertion and changes no neighbour, none of the first
\* three corners of a tetrahedron and no corner of an inner tetrahedron.
C18_InfinityTag ==
    /\ [](pc = "done" =>
              \A o \in OuterTetrahedrons :
                  LET above == LeadingCoefficientAboveEpsilon(CornerNormal(o, 0), CornerNormal(o, 1),
                                                              CornerNormal(o, 2))
                  IN  /\ tetrahedrons_[o].indices_[3] = IF above THEN Infinity3 ELSE Infinity2
                      /\ matrix_[o].scaled = above
                      /\ LengthSquared(CornerNormal(o, 0)) * LengthSquared(CornerNormal(o, 1))
                             * LengthSquared(CornerNormal(o, 2)) < 10 ^ 6)
    /\ [][pc = "calculateMatrices" =>
              /\ asserts' = asserts
              /\ DOMAIN tetrahedrons_' = DOMAIN tetrahedrons_
              /\ \A t \in DOMAIN tetrahedrons_ :
                     /\ tetrahedrons_'[t].neighbors_ = tetrahedrons_[t].neighbors_
                     /\ \A j \in 0 .. 2 : tetrahedrons_'[t].indices_[j] = tetrahedrons_[t].indices_[j]
                     /\ t < numInnerTetrahedrons_ => tetrahedrons_'[t].indices_[3] = tetrahedrons_[t].indices_[3]]_vars
\* A finished build with a hull that has outer tetrahedrons of both kinds and
\* an inner vertex.
C18_Witness ==
    /\ pc = "done"
    /\ \E o \in OuterTetrahedrons : tetrahedrons_[o].indices_[3] = Infinity2 /\ ~matrix_[o].scaled
    /\ \E o \in OuterTetrahedrons : tetrahedrons_[o].indices_[3] = Infinity3 /\ matrix_[o].scaled

\* The mesh is as InitializeSuperMesh left it: the build has started and no
\* vertex has been attempted.
SuperMeshOnly == pc = "triangulate" /\ Size(history) = 0
CentralTetrahedron == 4
CornerTetrahedrons == 0 .. 3
\* C19: InitializeSuperMesh yields the eight corners of the padded bounding
\* box as vertices 0..7 and five tetrahedrons; a corner tetrahedron has the
\* central one as its only neighbour, in slot 0, across the face opposite
\* its own corner; slot i of the central tetrahedron holds the corner
\* tetrahedron that shares its face i; the other twelve faces have no
\* neighbour and form a closed surface.
C19_SuperMesh ==
    SuperMeshOnly =>
        /\ Size(vertices_) = NumSuperMeshVertices + NumInputs
        /\ Cardinality({vertices_[k] : k \in 0 .. NumSuperMeshVertices - 1}) = NumSuperMeshVertices
        /\ \A k \in 0 .. NumSuperMeshVertices - 1 : \A c \in 1 .. 3 :
               vertices_[k][c] \in {MinCoord(positions, c) - scale, MaxCoord(positions, c) + scale}
        /\ Size(tetrahedrons_) = 5
        /\ \A t \in CornerTetrahedrons :
               /\ tetrahedrons_[t].neighbors_ = Arr4(CentralTetrahedron, M_MAX_UNSIGNED, M_MAX_UNSIGNED, M_MAX_UNSIGNED)
               /\ FaceVertices(tetrahedrons_[t], 0) \subseteq CornersOf(CentralTetrahedron)
               /\ tetrahedrons_[t].indices_[0] \notin CornersOf(CentralTetrahedron)
        /\ \A i \in 0 .. 3 :
               LET n == tetrahedrons_[CentralTetrahedron].neighbors_[i]
               IN  /\ n \in CornerTetrahedrons
                   /\ FaceVertices(tetrahedrons_[n], 0) = FaceVertices(tetrahedrons_[CentralTetrahedron], i)
        /\ Cardinality(HullFaces(tetrahedrons_)) = 12
        /\ EveryHullEdgeSharedByTwo(tetrahedrons_)
        /\ \A t \in DOMAIN tetrahedrons_ : Cardinality(CornersOf(t)) = 4
\* The super mesh of a build of several points at the fine scale.
C19_Witness ==
    /\ SuperMeshOnly
    /\ NumInputs >= 4
    /\ scale = FineScale
    /\ Size(tetrahedrons_) = 5

\* The tetrahedrons that are not flagged removed and have the position inside
\* their circumsphere.
ConflictingWith(position) ==
    {t \in DOMAIN tetrahedrons_ : ~removed_[t] /\ IsInsideCircumsphere(circumspheres_[t], position)}
\* The members of `conflicts' that can be reached from S through neighbour
\* slots without leaving `conflicts'.
RECURSIVE ReachableWithin(_, _)
ReachableWithin(S, conflicts) ==
    LET next == S \cup {n \in conflicts : \E t \in S : \E j \in 0 .. 3 : tetrahedrons_[t].neighbors_[j] = n}
    IN  IF next = S THEN S ELSE ReachableWithin(next, conflicts)
LowestOf(set) == CHOOSE t \in set : \A other \in set : t <= other
\* What the breadth search of the attempt on the vertex at the head of the
\* queue yields: the list of the tetrahedrons to remove is the set of the
\* conflicting tetrahedrons reachable from the seed, without repetition.
FloodFillIsExact(position, conflicts) ==
    LET bfs == BreadthSearch(tetrahedrons_, circumspheres_, position,
                             FindFirstIntersected(circumspheres_, removed_, position), removed_)
        marked == Range(bfs.removedTetrahedrons)
    IN  /\ bfs.removedTetrahedrons[0] = LowestOf(conflicts)
        /\ marked = ReachableWithin({LowestOf(conflicts)}, conflicts)
        /\ Cardinality(marked) = Size(bfs.removedTetrahedrons)
        /\ marked \subseteq conflicts
        /\ \A t \in DOMAIN tetrahedrons_ : bfs.removed_[t] = (removed_[t] \/ t \in marked)
        /\ lastAttempt'.outcome = "ok" =>
               /\ lastAttempt'.numRemoved = Cardinality(marked)
               /\ \A t \in marked : \A j \in 0 .. 3 :
                      LET n == tetrahedrons_[t].neighbors_[j]
                      IN  (n # M_MAX_UNSIGNED /\ n \notin marked) =>
                              /\ ~removed_[n]
                              /\ ~IsInsideCircumsphere(circumspheres_[n], position)
\* C20: the flood fill of FindAndRemoveIntersected marks exactly the live
\* tetrahedrons that can be reached from the seed, the conflicting one of the
\* lowest index, through neighbours that conflict with the vertex; every
\* marked one conflicts, none is queued twice, a missing neighbour is not
\* followed, and after a successful carve no live neighbour of a removed
\* tetrahedron has the vertex inside its circumsphere.
C20_FloodFill ==
    [][(pc = "triangulate" /\ queuePos < Size(verticesQueue)
            /\ ConflictingWith(vertices_[verticesQueue[queuePos]]) # {}) =>
           FloodFillIsExact(vertices_[verticesQueue[queuePos]],
                            ConflictingWith(vertices_[verticesQueue[queuePos]]))]_vars
\* A successful carve of many tetrahedrons that left others in place.
C20_Witness ==
    /\ pc = "triangulate"
    /\ lastAttempt.outcome = "ok"
    /\ lastAttempt.numRemoved >= 8
    /\ Cardinality({t \in DOMAIN removed_ : ~removed_[t]}) > lastAttempt.numHoleFaces

\* The result of the breadth search of the attempt on `position' in the
\* current mesh.
SearchFor(position) ==
    BreadthSearch(tetrahedrons_, circumspheres_, position,
                  FindFirstIntersected(circumspheres_, removed_, position), removed_)
\* The (tetrahedron, face) pairs of the marked tetrahedrons whose neighbour is
\* missing or not marked.
HoleBoundary(bfs) ==
    {f \in Range(bfs.removedTetrahedrons) \X (0 .. 3) :
        \/ tetrahedrons_[f[1]].neighbors_[f[2]] = M_MAX_UNSIGNED
        \/ ~bfs.removed_[tetrahedrons_[f[1]].neighbors_[f[2]]]}
\* Triangle tri is the hole triangle of the boundary pair f: it has the
\* vertices of the face, and refers back to the live neighbour and the slot
\* of that neighbour that points at the marked tetrahedron, or to nothing.
IsTriangleOf(tri, f) ==
    LET n == tetrahedrons_[f[1]].neighbors_[f[2]]
    IN  /\ Range(tri.indices_) = FaceVertices(tetrahedrons_[f[1]], f[2])
        /\ IF n = M_MAX_UNSIGNED
           THEN tri.tetIndex_ = M_MAX_UNSIGNED
           ELSE /\ tri.tetIndex_ = n
                /\ tri.tetFace_ \in 0 .. 3
                /\ tetrahedrons_[n].neighbors_[tri.tetFace_] = f[1]
                /\ FaceVertices(tetrahedrons_[n], tri.tetFace_) = Range(tri.indices_)
HoleExtractionIsExact(bfs, holeTriangles) ==
    /\ Size(holeTriangles) = Cardinality(HoleBoundary(bfs))
    /\ \A f \in HoleBoundary(bfs) :
           Cardinality({i \in DOMAIN holeTriangles : IsTriangleOf(holeTriangles[i], f)}) = 1
    /\ \A i \in DOMAIN holeTriangles : \E f \in HoleBoundary(bfs) : IsTriangleOf(holeTriangles[i], f)
    /\ lastAttempt'.outcome = "ok" => lastAttempt'.numHoleFaces = Cardinality(HoleBoundary(bfs))
\* C21: the extraction of the hole boundary yields exactly one triangle for
\* every face of a marked tetrahedron whose neighbour is live or missing and
\* none for a face between two marked tetrahedrons; a triangle at a live
\* neighbour N refers back to (N, f) with N.neighbors_[f] the marked
\* tetrahedron, a triangle at the hull refers back to nothing.
C21_HoleBoundary ==
    [][(pc = "triangulate" /\ queuePos < Size(verticesQueue)
            /\ ConflictingWith(vertices_[verticesQueue[queuePos]]) # {}) =>
           HoleExtractionIsExact(
               SearchFor(vertices_[verticesQueue[queuePos]]),
               CollectHoleTriangles(tetrahedrons_, SearchFor(vertices_[verticesQueue[queuePos]]).removed_,
                                    SearchFor(vertices_[verticesQueue[queuePos]]).removedTetrahedrons))]_vars
\* A carve of several tetrahedrons with faces between marked tetrahedrons,
\* in a mesh that already has input vertices.
C21_Witness ==
    /\ pc = "triangulate"
    /\ lastAttempt.outcome = "ok"
    /\ lastAttempt.numRemoved >= 3
    /\ lastAttempt.numHoleFaces < 4 * lastAttempt.numRemoved
    /\ Size(history) >= 3

\* The mesh `disconnected' is the mesh left by the disconnection of the
\* tetrahedrons marked by the search bfs: no link leads to a marked
\* tetrahedron, a marked tetrahedron has no link, and every link between
\* two tetrahedrons that are not marked is as it was.
DisconnectionIsClean(bfs, disconnected) ==
    /\ DOMAIN disconnected = DOMAIN tetrahedrons_
    /\ \A t \in DOMAIN disconnected : \A j \in 0 .. 3 :
           LET before == tetrahedrons_[t].neighbors_[j]
               after == disconnected[t].neighbors_[j]
           IN  /\ disconnected[t].indices_ = tetrahedrons_[t].indices_
               /\ after # M_MAX_UNSIGNED => ~bfs.removed_[after]
               /\ bfs.removed_[t] => after = M_MAX_UNSIGNED
               /\ (~bfs.removed_[t] /\ (before = M_MAX_UNSIGNED \/ ~bfs.removed_[before])) => after = before
\* The step keeps every link between two tetrahedrons that bfs did not mark.
LinksOutsideKept(bfs) ==
    \A t \in DOMAIN tetrahedrons_ : \A j \in 0 .. 3 :
        (/\ ~bfs.removed_[t]
         /\ tetrahedrons_[t].neighbors_[j] # M_MAX_UNSIGNED
         /\ ~bfs.removed_[tetrahedrons_[t].neighbors_[j]])
        => tetrahedrons_'[t].neighbors_[j] = tetrahedrons_[t].neighbors_[j]
\* C22: after DisconnectRemovedTetrahedrons no live tetrahedron has a
\* neighbour slot that points at a dead one and every dead tetrahedron has
\* four empty slots, so that the assertion of FillStarShapedHole holds and
\* the links between live tetrahedrons outside the hole are unchanged.
C22_Disconnected ==
    [][(pc = "triangulate" /\ queuePos < Size(verticesQueue) /\ lastAttempt'.outcome = "ok") =>
           /\ DisconnectionIsClean(
                  SearchFor(vertices_[verticesQueue[queuePos]]),
                  DisconnectRemovedTetrahedrons(
                      tetrahedrons_, SearchFor(vertices_[verticesQueue[queuePos]]).removedTetrahedrons))
           /\ "FillStarShapedHole" \notin asserts'
           /\ LinksOutsideKept(SearchFor(vertices_[verticesQueue[queuePos]]))]_vars
\* A successful carve that leaves live tetrahedrons which keep links to each
\* other: the mesh has more tetrahedrons than the insertion made.
C22_Witness ==
    /\ pc = "triangulate"
    /\ lastAttempt.outcome = "ok"
    /\ lastAttempt.numRemoved >= 2
    /\ Cardinality({t \in DOMAIN tetrahedrons_ : ~removed_[t]}) >= lastAttempt.numHoleFaces + 2
    /\ asserts = {}

NumLive(flags) == Cardinality({t \in DOMAIN flags : ~flags[t]})
Max2(a, b) == IF a > b THEN a ELSE b
\* Slot i of the list of dead tetrahedrons of the insertion: the tetrahedrons
\* marked by bfs in the order of the search, then the appended ones.
DeadSlot(bfs, i) ==
    IF i < Size(bfs.removedTetrahedrons) THEN bfs.removedTetrahedrons[i]
    ELSE Size(tetrahedrons_) + (i - Size(bfs.removedTetrahedrons))
\* The step reuses the slots of the d tetrahedrons marked by bfs for the h
\* new tetrahedrons before it appends slots.
SlotsReused(bfs, d, h) ==
    /\ d = Size(bfs.removedTetrahedrons)
    /\ Size(tetrahedrons_') - Size(tetrahedrons_) = Max2(0, h - d)
    /\ \A i \in 0 .. h - 1 : ~removed_'[DeadSlot(bfs, i)]
    /\ \A i \in h .. d - 1 : removed_'[DeadSlot(bfs, i)]
    /\ NumLive(removed_') - NumLive(removed_) = h - d
    /\ Cardinality({t \in DOMAIN tetrahedrons_' :
                       /\ ~removed_'[t]
                       /\ t \in DOMAIN tetrahedrons_ => tetrahedrons_'[t].indices_ # tetrahedrons_[t].indices_}) = h
    /\ \A t \in DOMAIN tetrahedrons_ :
           ~bfs.removed_[t] => (~removed_'[t] /\ tetrahedrons_'[t].indices_ = tetrahedrons_[t].indices_)
IsConeOverHoleFace(bfs, newVertexIndex, h, i) ==
    LET slot == DeadSlot(bfs, i)
        cell == tetrahedrons_'[slot]
        created == {DeadSlot(bfs, n) : n \in 0 .. h - 1}
    IN  /\ cell.indices_[3] = newVertexIndex
        /\ Cardinality(Range(cell.indices_)) = 4
        /\ \E f \in HoleBoundary(bfs) :
               LET behind == tetrahedrons_[f[1]].neighbors_[f[2]]
               IN  /\ FaceVertices(cell, 3) = FaceVertices(tetrahedrons_[f[1]], f[2])
                   /\ cell.neighbors_[3] = behind
                   /\ behind # M_MAX_UNSIGNED =>
                          \E k \in 0 .. 3 : /\ tetrahedrons_'[behind].neighbors_[k] = slot
                                            /\ FaceVertices(tetrahedrons_'[behind], k) = FaceVertices(cell, 3)
                                            /\ tetrahedrons_[behind].neighbors_[k] = f[1]
        /\ \A j \in 0 .. 2 :
               /\ cell.neighbors_[j] \in created \ {slot}
               /\ newVertexIndex \in FaceVertices(cell, j)
               /\ \E k \in 0 .. 2 :
                      /\ tetrahedrons_'[cell.neighbors_[j]].neighbors_[k] = slot
                      /\ FaceVertices(tetrahedrons_'[cell.neighbors_[j]], k) = FaceVertices(cell, j)
\* C24: every tetrahedron that FillStarShapedHole makes for a vertex v has
\* the vertices of a hole face as corners 0..2 and v as corner 3, four
\* distinct vertices; its neighbour across face 3 is the tetrahedron the hole
\* face referred to, which points back, or none at the hull; its other three
\* neighbours are tetrahedrons made in the same insertion that share the
\* face of v and the corresponding edge.
C24_StarFill ==
    [][(pc = "triangulate" /\ queuePos < Size(verticesQueue) /\ lastAttempt'.outcome = "ok") =>
           \A i \in 0 .. lastAttempt'.numHoleFaces - 1 :
               IsConeOverHoleFace(SearchFor(vertices_[verticesQueue[queuePos]]),
                                  verticesQueue[queuePos], lastAttempt'.numHoleFaces, i)]_vars
\* A fill of a hole that has faces at live tetrahedrons and faces at the
\* hull: a new tetrahedron without neighbour across face 3 and one with.
C24_Witness ==
    /\ pc = "triangulate"
    /\ lastAttempt.outcome = "ok"
    /\ lastAttempt.vertex >= NumSuperMeshVertices
    /\ \E s, t \in DOMAIN tetrahedrons_ :
           /\ ~removed_[s] /\ ~removed_[t]
           /\ tetrahedrons_[s].indices_[3] = lastAttempt.vertex
           /\ tetrahedrons_[t].indices_[3] = lastAttempt.vertex
           /\ tetrahedrons_[s].neighbors_[3] = M_MAX_UNSIGNED
           /\ tetrahedrons_[t].neighbors_[3] # M_MAX_UNSIGNED

\* The context of the triangulation is coherent with the tetrahedrons: its
\* arrays are as long as tetrahedrons_, and the sphere kept for a live
\* tetrahedron is the circumsphere of its four vertices.
ContextCoherent ==
    /\ Size(circumspheres_) = Size(tetrahedrons_)
    /\ Size(removed_) = Size(tetrahedrons_)
    /\ \A t \in DOMAIN tetrahedrons_ :
           (t \in DOMAIN removed_ /\ ~removed_[t]) =>
               /\ t \in DOMAIN circumspheres_
               /\ \A j \in 0 .. 3 : tetrahedrons_[t].indices_[j] \in DOMAIN vertices_
               /\ circumspheres_[t] = GetTetrahedronCircumsphere(vertices_, tetrahedrons_[t])
\* The context is in use: from its initialisation to the call of
\* RemoveMarkedTetrahedrons, which reads the flags and compacts tetrahedrons_.
ContextInUse == pc \in {"triangulate", "dump", "disconnectSuperMesh", "removeMarked"}
\* A step computes a sphere only for a tetrahedron it creates: the sphere of
\* a tetrahedron that stays as it is, live or dead, stays as it is.
SpheresOfOthersKept ==
    \A t \in DOMAIN circumspheres_ :
        (t \in DOMAIN tetrahedrons_' /\ t \in DOMAIN tetrahedrons_ /\ t \in DOMAIN circumspheres_'
            /\ tetrahedrons_'[t].indices_ = tetrahedrons_[t].indices_)
        => circumspheres_'[t] = circumspheres_[t]
\* C25 as stated: the context is coherent with the tetrahedrons throughout
\* the build, at every state behind the initialisation of the context.
C25_ContextCoherent == pc # "idle" => ContextCoherent
\* C25: while the context is in use, that is until RemoveMarkedTetrahedrons
\* compacts tetrahedrons_, the arrays of circumspheres and of flags are as
\* long as tetrahedrons_ and the sphere kept for a live tetrahedron is the
\* circumsphere of its four vertices; a sphere is computed for a tetrahedron
\* only when it is created.
C25_ContextCoherentInUse ==
    /\ [](ContextInUse => ContextCoherent)
    /\ [][pc = "triangulate" => SpheresOfOthersKept]_vars
\* The context behind three attempts at least, with live tetrahedrons in
\* slots that were appended.
C25_Witness ==
    /\ pc = "dump"
    /\ ContextCoherent
    /\ Size(history) >= 3
    /\ \E t \in DOMAIN removed_ : ~removed_[t] /\ t >= 5

\* The tetrahedrons below numInnerTetrahedrons_ have four vertices of the
\* input, the ones from numInnerTetrahedrons_ on have three vertices of the
\* input and a corner at infinity.
PartitionedByInnerCount ==
    /\ numInnerTetrahedrons_ \in 0 .. Size(tetrahedrons_)
    /\ \A t \in InnerTetrahedrons : \A j \in 0 .. 3 : tetrahedrons_[t].indices_[j] \in DOMAIN vertices_
    /\ \A t \in OuterTetrahedrons :
           /\ \A j \in 0 .. 2 : tetrahedrons_[t].indices_[j] \in DOMAIN vertices_
           /\ tetrahedrons_[t].indices_[3] \in {Infinity3, Infinity2}
\* C26: after Define the tetrahedrons are partitioned by the inner count:
\* below numInnerTetrahedrons_ are the inner tetrahedrons, whose corners are
\* vertices of the input, from numInnerTetrahedrons_ on the outer ones,
\* whose corner 3 is at infinity, and numInnerTetrahedrons_ plus the number
\* of hull faces is the number of tetrahedrons.
C26_Partition ==
    pc = "done" =>
        /\ PartitionedByInnerCount
        /\ numInnerTetrahedrons_ + Cardinality(InnerHullFaces) = Size(tetrahedrons_)

\* The build that ends here, one on a mesh that was built before, has left
\* what the earlier build of the same positions left.
SameAsEarlierBuild == (pc = "done" /\ earlierBuild.built) => LeftByBuild = earlierBuild
\* The normals to which CalculateHullNormals adds the normals of the hull
\* faces are zero.
NormalsStartFromZero ==
    pc = "calculateHullNormals" =>
        \A i \in 0 .. Size(vertices_) - 1 : ResizeNormals(hullNormals_, Size(vertices_))[i] = <<0, 0, 0>>
\* C27: Define does not depend on what the mesh held before: a second Define
\* with the same positions leaves the vertices, tetrahedrons, hull normals,
\* inner count and ignored vertices of a Define on a new mesh, and the hull
\* normals are not accumulated on top of the normals of the earlier build.
C27_DefineTwice == SameAsEarlierBuild /\ NormalsStartFromZero

\* The pairs of distinct corners of inner tetrahedrons, smaller index first.
InnerEdges ==
    {e \in (DOMAIN vertices_) \X (DOMAIN vertices_) :
        /\ e[1] < e[2]
        /\ \E t \in InnerTetrahedrons : {e[1], e[2]} \subseteq Range(tetrahedrons_[t].indices_)}
\* The array is the set of the edges of the inner tetrahedrons in ascending
\* order, every edge once.
IsEdgeSet(collected) ==
    /\ \A k \in 1 .. Size(collected) - 1 : PairLess(collected[k - 1], collected[k])
    /\ \A k \in DOMAIN collected :
           /\ collected[k][1] < collected[k][2]
           /\ collected[k][1] \notin {Infinity2, Infinity3}
           /\ collected[k][2] \notin {Infinity2, Infinity3}
           /\ collected[k] \in InnerEdges
    /\ \A e \in InnerEdges : Cardinality({k \in DOMAIN collected : collected[k] = e}) = 1
\* C28: CollectEdges returns the set of the edges of the inner tetrahedrons:
\* in ascending order, no pair twice, every pair (a, b) with a < b made of
\* two distinct corners of an inner tetrahedron, every pair of distinct
\* corners of an inner tetrahedron once, and no index at infinity.
C28_CollectEdges == [][(pc = "done" /\ pc' = "done") => IsEdgeSet(edges')]_vars

\* C29: at every stable state between insertions a tetrahedron flagged
\* removed has no neighbour and is the neighbour of no live tetrahedron.
\* The property is stated for the record: no build of the model leaves a
\* flagged tetrahedron between insertions (C29_Reached is not reachable).
C29_DeadSlotsInert ==
    pc = "triangulate" =>
        \A t \in DOMAIN tetrahedrons_ :
            removed_[t] =>
                /\ tetrahedrons_[t].neighbors_ = NoNeighbors4
                /\ \A n \in DOMAIN tetrahedrons_ : \A j \in 0 .. 3 :
                       ~removed_[n] => tetrahedrons_[n].neighbors_[j] # t
C29_Reached == pc = "triangulate" /\ \E t \in DOMAIN removed_ : removed_[t]

\* What a replay of the excluded vertex at place i of the queue finds in the
\* mesh as it is: the result of FindAndRemoveIntersected in dump error mode.
ReplayOf(i) ==
    FindAndRemoveIntersected(tetrahedrons_, vertices_, circumspheres_, removed_,
                             vertices_[verticesQueue[i]], scale, TRUE)
\* The edges that the replays of all excluded vertices highlight, in the
\* order of the queue.
HighlightOfAll ==
    ForLoop(LAMBDA st, i : [edges |-> AppendAll(st.edges, ReplayOf(i).highlight)], NoBreak,
            [edges |-> EmptyArray], 0, Size(verticesQueue)).edges
\* The replay leaves every flag, tetrahedron and link as it was, never finds
\* a valid hole, and has examined every excluded vertex.
ReplayIsFree ==
    /\ tetrahedrons_' = tetrahedrons_
    /\ removed_' = removed_
    /\ circumspheres_' = circumspheres_
    /\ vertices_' = vertices_
    /\ "DumpErrorsValid" \notin asserts'
ReplayExaminesAll == debugHighlightEdges_' = HighlightOfAll
\* C30: the replay of the excluded vertices behind the retry loop has no
\* effect on the triangulation: it examines every excluded vertex again,
\* every replay that reaches the dump branch finds its hole invalid, and
\* every flag, tetrahedron and link is afterwards what it was before.
C30_ReplaySideEffectFree == [][pc = "dump" => (ReplayIsFree /\ ReplayExaminesAll)]_vars
====
